---- MODULE Spec2Model ----
(***************************************************************************)
(* Offline synchronisation subsystem of the TaskManagement client:         *)
(* the Durable Task Store (storage), the Offline Action Log and the Sync   *)
(* Coordinator (syncService), the local Task Operations Facade             *)
(* (taskService) and the UI-facing store (useTaskStore).                   *)
(*                                                                         *)
(* Every handler is one action.  The outcome of each awaited collaborator  *)
(* call (AsyncStorage read/write/remove, NetInfo probe, Firestore call) is *)
(* an input of the action, carried in the record e.                        *)
(***************************************************************************)
EXTENDS Integers, Sequences, FiniteSets, TLC

VARIABLES
    tasks,          \* useTaskStore.tasks, the in-memory snapshot
    isLoading,      \* useTaskStore.isLoading
    error,          \* useTaskStore.error (Null or a message)
    asyncStorage,   \* AsyncStorage: the '@tasks' and '@offline_actions' blobs
    docs,           \* the Firestore 'tasks' collection, in creation order
    clock,          \* the reading of Date.now()
    steps,          \* the number of handler calls made so far
    last,           \* the call that ran last: its arguments, faults and outcome
    sync,           \* useSyncStore, the device's connectivity and the
                    \* callbacks that are scheduled and have not run yet
    inflight,       \* the taskService calls that run concurrently: the
                    \* await each one is suspended at, and its locals
    reconciling     \* the calls of useTaskStore.syncTasks that run
                    \* concurrently, likewise

vars ==
    <<tasks, isLoading, error, asyncStorage, docs, clock, steps, last, sync,
      inflight, reconciling>>

----------------------------------------------------------------------------
(* Bounds of the model *)

MaxTasks == 2       \* longest snapshot (in memory or durable)
MaxLog == 2         \* longest Offline Action Log
MaxClock == 2       \* last reading of the clock
MaxDocs == 1        \* most documents in the Firestore collection
MaxSteps == 3       \* most handler calls in one run of the application
MaxFaults == 1      \* most AsyncStorage calls that throw within one handler
MaxFoldTasks == 2   \* longest snapshot handed to the fold (SpecFold)
MaxFoldLog == 3     \* longest log handed to the fold (SpecFold)
MaxReconciles == 2  \* most reconciles scheduled and not yet run (SpecAuto)
MaxConflictSteps == 4   \* most handler calls in one run of SpecConflict
MaxFilterTasks == 3     \* longest snapshot handed to filterTasks (SpecFilter)

----------------------------------------------------------------------------
(* Values *)

Null == "null"              \* JavaScript null
Undefined == "undefined"    \* JavaScript undefined / a missing property

\* An AsyncStorage entry: Absent is a key never set or removed (getItem
\* resolves null), Blob(x) the entry that setItem(JSON.stringify(x)) leaves
Absent == [set |-> FALSE, data |-> <<>>]
Blob(x) == [set |-> TRUE, data |-> x]

Titles == {"A", "B"}
Descriptions == {"d"}
UserIds == {"u1"}
DueDates == {Undefined}
TaskStatus == {"not_started", "in_progress", "completed"}

NotFound == "Task not found"
NoConnection == "No internet connection"
StorageError == "AsyncStorage error"
FirestoreError == "Firestore error"

Task(id, title, description, completed, status, assignedDate, dueDate, createdAt, updatedAt, userId) ==
    [id |-> id, title |-> title, description |-> description,
     completed |-> completed, status |-> status,
     assignedDate |-> assignedDate, dueDate |-> dueDate,
     createdAt |-> createdAt, updatedAt |-> updatedAt, userId |-> userId]

OfflineAction(id, type, payload, timestamp) ==
    [id |-> id, type |-> type, payload |-> payload, timestamp |-> timestamp]

\* { ...t, ...u }
Spread(t, u) ==
    [f \in (DOMAIN t) \cup (DOMAIN u) |-> IF f \in DOMAIN u THEN u[f] ELSE t[f]]

\* new Date().toISOString() and Date.now().toString() at clock reading c
toISOString(c) == "T" \o ToString(c)
DateNowString(c) == ToString(c)

\* A Date object, as Firestore's Timestamp.toDate() returns it
DateObj(c) == "Date" \o ToString(c)

\* JSON.parse(JSON.stringify(ts)): a Date becomes its ISO string; only
\* createdAt and updatedAt ever hold a Date
JsonValue(v) ==
    IF \E c \in 0..(MaxClock + 1) : v = DateObj(c)
    THEN toISOString(CHOOSE c \in 0..(MaxClock + 1) : v = DateObj(c))
    ELSE v
JsonTask(t) ==
    [t EXCEPT !.createdAt = JsonValue(@), !.updatedAt = JsonValue(@)]
JsonRoundTrip(ts) == [i \in 1..Len(ts) |-> JsonTask(ts[i])]

----------------------------------------------------------------------------
(* The awaited collaborator calls of one handler and their outcomes.       *)
(* e maps each call site to TRUE when the call succeeds (for a NetInfo     *)
(* probe: reports connected) and to FALSE when it throws (reports not      *)
(* connected).  Every operation reports in "calls" the call sites it       *)
(* reached.                                                                *)

AllSucceed ==
    [firestore |-> TRUE,          \* the firestoreService call
     getTaskById |-> TRUE,        \* getItem('@tasks') in taskService.getTaskById
     getTasks |-> TRUE,           \* getItem('@tasks') in storage.getTasks
     saveTasks |-> TRUE,          \* setItem('@tasks'), the handler's local write
     checkConnectivity |-> TRUE,  \* NetInfo.fetch(), the handler's own probe
     syncProbe |-> TRUE,          \* NetInfo.fetch() inside syncService.syncTasks
     syncSave |-> TRUE,           \* setItem('@tasks') inside syncService.syncTasks
     getActions |-> TRUE,         \* getItem('@offline_actions')
     setActions |-> TRUE,         \* setItem('@offline_actions')
     clearActions |-> TRUE]       \* removeItem('@offline_actions')

CallSites == DOMAIN AllSucceed

\* The outcome records in which only calls of cs may fail
Outcomes(cs) ==
    {e \in [CallSites -> BOOLEAN] : \A c \in CallSites \ cs : e[c]}

\* Only a call that was reached can have failed
Reached(e, calls) == \A c \in CallSites \ calls : e[c]

AfterSaveTasks ==
    {"checkConnectivity", "syncProbe", "syncSave", "getActions", "setActions"}

\* The AsyncStorage calls
StorageCalls ==
    {"getTaskById", "getTasks", "saveTasks", "syncSave", "getActions",
     "setActions", "clearActions"}

\* The order of the calls in a handler: a call that failed was reached, so
\* the calls before it went the way that leads to it
CallOrder(e) ==
    /\ Cardinality({c \in StorageCalls : ~e[c]}) <= MaxFaults
    /\ ~e.getTaskById => \A c \in {"getTasks", "saveTasks"} \cup AfterSaveTasks : e[c]
    /\ ~e.saveTasks => \A c \in AfterSaveTasks : e[c]
    /\ ~e.checkConnectivity => e.syncProbe /\ e.syncSave
    /\ ~e.syncProbe => e.syncSave
    /\ e.syncProbe /\ e.syncSave /\ ~e.clearActions => e.checkConnectivity
    /\ (~e.getActions \/ ~e.setActions) /\ e.clearActions
          => ~(e.checkConnectivity /\ e.syncProbe /\ e.syncSave)

\* The outcomes of the calls of a mutating handler of useTaskStore: the
\* local service is called only when the Firestore call throws
StoreOutcomes ==
    UNION {{e} : e \in {o \in Outcomes(CallSites \ {"clearActions"}) :
                            /\ CallOrder(o)
                            /\ o.firestore => \A c \in CallSites : o[c]}}

\* The outcomes of the calls of a taskService operation
ServiceOutcomes ==
    UNION {{e} : e \in {o \in Outcomes(CallSites \ {"clearActions", "firestore"}) :
                            CallOrder(o)}}

\* The outcomes of the calls of a reconcile
SyncOutcomes ==
    UNION {{e} : e \in {o \in Outcomes({"checkConnectivity", "syncProbe",
                                        "syncSave", "getActions",
                                        "clearActions"}) : CallOrder(o)}}

\* The outcomes of the calls of useTaskStore.fetchTasks
FetchOutcomes == UNION {{e} : e \in Outcomes({"firestore", "getTasks"})}

----------------------------------------------------------------------------
(* storage: the Durable Task Store *)

\* storage.getTasks: [] when nothing is stored and when the read throws
getTasks(st, ok) ==
    IF ok /\ st.tasks.set THEN st.tasks.data ELSE <<>>

\* saveTasks whose failed write leaves nothing stored
saveTasks_clobber(st, ts, ok) ==
    IF ok THEN [ok |-> TRUE, st |-> [st EXCEPT !.tasks = Blob(JsonRoundTrip(ts))]]
    ELSE [ok |-> FALSE, st |-> [st EXCEPT !.tasks = Absent]]

\* saveTasks keeping the stored tasks whose id the array written lacks
saveTasks_merge(st, ts, ok) ==
    LET kept == SelectSeq(getTasks(st, TRUE),
                    LAMBDA t : \A i \in 1..Len(ts) : ts[i].id # t.id)
    IN  IF ok
        THEN [ok |-> TRUE,
              st |-> [st EXCEPT !.tasks = Blob(JsonRoundTrip(kept \o ts))]]
        ELSE [ok |-> FALSE, st |-> st]

\* storage.saveTasks: ok = FALSE when setItem throws (rethrown)
saveTasks(st, ts, ok) ==
    IF ok THEN [ok |-> TRUE, st |-> [st EXCEPT !.tasks = Blob(JsonRoundTrip(ts))]]
    ELSE [ok |-> FALSE, st |-> st]

----------------------------------------------------------------------------
(* syncService: the Offline Action Log and the Sync Coordinator *)

\* syncService.getOfflineActions
getOfflineActions(st, ok) ==
    IF ok /\ st.offline_actions.set THEN st.offline_actions.data ELSE <<>>

\* saveOfflineAction writing the new action alone, not the log followed by it
saveOfflineAction_overwrite(st, action, e) ==
    [ok |-> e.setActions,
     st |-> IF e.setActions
            THEN [st EXCEPT !.offline_actions = Blob(<<action>>)] ELSE st,
     calls |-> {"getActions", "setActions"}]

\* syncService.saveOfflineAction: ok = FALSE when setItem throws (rethrown)
saveOfflineAction(st, action, e) ==
    LET actions == Append(getOfflineActions(st, e.getActions), action)
    IN  [ok |-> e.setActions,
         st |-> IF e.setActions
                THEN [st EXCEPT !.offline_actions = Blob(actions)] ELSE st,
         calls |-> {"getActions", "setActions"}]

\* clearOfflineActions that removes nothing
clearOfflineActions_never(st, ok) == st

\* syncService.clearOfflineActions: a failure of removeItem is swallowed
clearOfflineActions(st, ok) ==
    IF ok THEN [st EXCEPT !.offline_actions = Absent] ELSE st

\* syncTasks without the connectivity check
syncTasks_noprobe(st, ts, e) ==
    LET s == saveTasks(st, ts, e.syncSave)
    IN  [ok |-> s.ok, err |-> IF s.ok THEN Null ELSE StorageError,
         st |-> s.st, val |-> IF s.ok THEN ts ELSE <<>>,
         calls |-> {"syncProbe", "syncSave"}]

\* syncService.syncTasks
syncTasks(st, ts, e) ==
    IF ~e.syncProbe
    THEN [ok |-> FALSE, err |-> NoConnection, st |-> st, val |-> <<>>,
          calls |-> {"syncProbe"}]
    ELSE LET s == saveTasks(st, ts, e.syncSave)
         IN  [ok |-> s.ok, err |-> IF s.ok THEN Null ELSE StorageError,
              st |-> s.st, val |-> IF s.ok THEN ts ELSE <<>>,
              calls |-> {"syncProbe", "syncSave"}]

\* Array.prototype.findIndex on the id: 0-based, -1 when no task has the id
findIndex(ts, id) ==
    IF \E i \in 1..Len(ts) : ts[i].id = id
    THEN (CHOOSE i \in 1..Len(ts) :
              ts[i].id = id /\ \A j \in 1..(i - 1) : ts[j].id # id) - 1
    ELSE -1

\* applyOfflineAction whose DELETE removes the first task, whatever its id
applyOfflineAction_shift(updatedTasks, action) ==
    CASE action.type = "CREATE" -> Append(updatedTasks, action.payload)
      [] action.type = "UPDATE" ->
            LET index == findIndex(updatedTasks, action.payload.id)
            IN  IF index # -1
                THEN [updatedTasks EXCEPT ![index + 1] = action.payload]
                ELSE updatedTasks
      [] action.type = "DELETE" ->
            SubSeq(updatedTasks, 2, Len(updatedTasks))
      [] OTHER -> updatedTasks

\* applyOfflineAction whose UPDATE appends the payload when no task has its id
applyOfflineAction_upsert(updatedTasks, action) ==
    CASE action.type = "CREATE" -> Append(updatedTasks, action.payload)
      [] action.type = "UPDATE" ->
            LET index == findIndex(updatedTasks, action.payload.id)
            IN  IF index # -1
                THEN [updatedTasks EXCEPT ![index + 1] = action.payload]
                ELSE Append(updatedTasks, action.payload)
      [] action.type = "DELETE" ->
            SelectSeq(updatedTasks, LAMBDA t : t.id # action.payload.id)
      [] OTHER -> updatedTasks

\* The body of the loop of processOfflineActions: one action of the log
applyOfflineAction(updatedTasks, action) ==
    CASE action.type = "CREATE" ->
            IF "id" \in DOMAIN action.payload
            THEN Append(updatedTasks, action.payload)
            ELSE updatedTasks
      [] action.type = "UPDATE" ->
            IF "id" \in DOMAIN action.payload
            THEN LET index == findIndex(updatedTasks, action.payload.id)
                 IN  IF index # -1
                     THEN [updatedTasks EXCEPT ![index + 1] = action.payload]
                     ELSE updatedTasks
            ELSE updatedTasks
      [] action.type = "DELETE" ->
            SelectSeq(updatedTasks, LAMBDA t : t.id # action.payload.id)
      [] OTHER -> updatedTasks

\* processLoop taking the actions newest first
RECURSIVE processLoop_lifo(_, _, _)
processLoop_lifo(updatedTasks, actions, i) ==
    IF i > Len(actions) THEN updatedTasks
    ELSE processLoop_lifo(
             applyOfflineAction(updatedTasks, actions[Len(actions) + 1 - i]),
             actions, i + 1)

\* for (const action of actions), from the i-th action on
RECURSIVE processLoop(_, _, _)
processLoop(updatedTasks, actions, i) ==
    IF i > Len(actions) THEN updatedTasks
    ELSE processLoop(applyOfflineAction(updatedTasks, actions[i]), actions, i + 1)

\* syncService.processOfflineActions
processOfflineActions(st, ts, e) ==
    LET actions == getOfflineActions(st, e.getActions)
    IN  [val |-> processLoop(ts, actions, 1),
         st |-> clearOfflineActions(st, e.clearActions),
         calls |-> {"getActions", "clearActions"}]

----------------------------------------------------------------------------
(* taskService: the local Task Operations Facade                           *)
(* Each operation yields [ok, err, val, st, calls]: whether it resolved,   *)
(* the message it rejected with, the value it resolved with, AsyncStorage  *)
(* afterwards, and the collaborator calls it reached.                      *)

Resolved(val, st, calls) ==
    [ok |-> TRUE, err |-> Null, val |-> val, st |-> st, calls |-> calls]

Rejected(err, st, calls) ==
    [ok |-> FALSE, err |-> err, val |-> Null, st |-> st, calls |-> calls]

\* syncOrQueue that lets the failure of the sync attempt escape
syncOrQueue_rethrow(st, ts, action, e) ==
    IF e.checkConnectivity
    THEN LET r == syncTasks(st, ts, e)
         IN  [ok |-> r.ok, st |-> r.st,
              calls |-> {"checkConnectivity"} \cup r.calls]
    ELSE LET q == saveOfflineAction(st, action, e)
         IN  [ok |-> q.ok, st |-> q.st,
              calls |-> {"checkConnectivity"} \cup q.calls]

\* "Try to sync if online", else (or when the sync throws) queue the action
syncOrQueue(st, ts, action, e) ==
    IF e.checkConnectivity
    THEN LET r == syncTasks(st, ts, e)
         IN  IF r.ok
             THEN [ok |-> TRUE, st |-> r.st,
                   calls |-> {"checkConnectivity"} \cup r.calls]
             ELSE LET q == saveOfflineAction(r.st, action, e)
                  IN  [ok |-> q.ok, st |-> q.st,
                       calls |-> {"checkConnectivity"} \cup r.calls \cup q.calls]
    ELSE LET q == saveOfflineAction(st, action, e)
         IN  [ok |-> q.ok, st |-> q.st,
              calls |-> {"checkConnectivity"} \cup q.calls]

\* createTask putting the new task first (unshift for push)
taskService_createTask_unshift(st, c, title, description, userId, dueDate, e) ==
    LET now == toISOString(c)
        newTask == Task(DateNowString(c), title, description, FALSE,
                        "not_started", now, dueDate, now, now, userId)
        ts == <<newTask>> \o getTasks(st, e.getTasks)
        s == saveTasks(st, ts, e.saveTasks)
        q == syncOrQueue(s.st, ts,
                 OfflineAction(DateNowString(c), "CREATE", newTask, now), e)
    IN  IF ~s.ok THEN Rejected(StorageError, st, {"getTasks", "saveTasks"})
        ELSE IF ~q.ok
        THEN Rejected(StorageError, q.st, {"getTasks", "saveTasks"} \cup q.calls)
        ELSE Resolved(newTask, q.st, {"getTasks", "saveTasks"} \cup q.calls)

\* taskService.createTask
taskService_createTask(st, c, title, description, userId, dueDate, e) ==
    LET now == toISOString(c)
        newTask == Task(DateNowString(c), title, description, FALSE,
                        "not_started", now, dueDate, now, now, userId)
        ts == Append(getTasks(st, e.getTasks), newTask)
        s == saveTasks(st, ts, e.saveTasks)
        q == syncOrQueue(s.st, ts,
                 OfflineAction(DateNowString(c), "CREATE", newTask, now), e)
    IN  IF ~s.ok THEN Rejected(StorageError, st, {"getTasks", "saveTasks"})
        ELSE IF ~q.ok
        THEN Rejected(StorageError, q.st, {"getTasks", "saveTasks"} \cup q.calls)
        ELSE Resolved(newTask, q.st, {"getTasks", "saveTasks"} \cup q.calls)

\* updateTask queueing the id with the updates, not the updated task
taskService_updateTask_patch(st, c, taskId, updates, e) ==
    LET ts0 == getTasks(st, e.getTasks)
        index == findIndex(ts0, taskId)
        updatedTask == Spread(Spread(ts0[index + 1], updates),
                              [updatedAt |-> toISOString(c)])
        ts == [ts0 EXCEPT ![index + 1] = updatedTask]
        s == saveTasks(st, ts, e.saveTasks)
        q == syncOrQueue(s.st, ts,
                 OfflineAction(DateNowString(c), "UPDATE",
                               Spread([id |-> taskId], updates),
                               toISOString(c)), e)
    IN  IF index = -1 THEN Rejected(NotFound, st, {"getTasks"})
        ELSE IF ~s.ok THEN Rejected(StorageError, st, {"getTasks", "saveTasks"})
        ELSE IF ~q.ok
        THEN Rejected(StorageError, q.st, {"getTasks", "saveTasks"} \cup q.calls)
        ELSE Resolved(updatedTask, q.st, {"getTasks", "saveTasks"} \cup q.calls)

\* taskService.updateTask
taskService_updateTask(st, c, taskId, updates, e) ==
    LET ts0 == getTasks(st, e.getTasks)
        index == findIndex(ts0, taskId)
        updatedTask == Spread(Spread(ts0[index + 1], updates),
                              [updatedAt |-> toISOString(c)])
        ts == [ts0 EXCEPT ![index + 1] = updatedTask]
        s == saveTasks(st, ts, e.saveTasks)
        q == syncOrQueue(s.st, ts,
                 OfflineAction(DateNowString(c), "UPDATE", updatedTask,
                               toISOString(c)), e)
    IN  IF index = -1 THEN Rejected(NotFound, st, {"getTasks"})
        ELSE IF ~s.ok THEN Rejected(StorageError, st, {"getTasks", "saveTasks"})
        ELSE IF ~q.ok
        THEN Rejected(StorageError, q.st, {"getTasks", "saveTasks"} \cup q.calls)
        ELSE Resolved(updatedTask, q.st, {"getTasks", "saveTasks"} \cup q.calls)

\* deleteTask without the 'Task not found' check
taskService_deleteTask_nocheck(st, c, taskId, e) ==
    LET ts0 == getTasks(st, e.getTasks)
        filteredTasks == SelectSeq(ts0, LAMBDA t : t.id # taskId)
        s == saveTasks(st, filteredTasks, e.saveTasks)
        q == syncOrQueue(s.st, filteredTasks,
                 OfflineAction(DateNowString(c), "DELETE", [id |-> taskId],
                               toISOString(c)), e)
    IN  IF ~s.ok THEN Rejected(StorageError, st, {"getTasks", "saveTasks"})
        ELSE IF ~q.ok
        THEN Rejected(StorageError, q.st, {"getTasks", "saveTasks"} \cup q.calls)
        ELSE Resolved(Null, q.st, {"getTasks", "saveTasks"} \cup q.calls)

\* taskService.deleteTask
taskService_deleteTask(st, c, taskId, e) ==
    LET ts0 == getTasks(st, e.getTasks)
        filteredTasks == SelectSeq(ts0, LAMBDA t : t.id # taskId)
        s == saveTasks(st, filteredTasks, e.saveTasks)
        q == syncOrQueue(s.st, filteredTasks,
                 OfflineAction(DateNowString(c), "DELETE", [id |-> taskId],
                               toISOString(c)), e)
    IN  IF Len(ts0) = Len(filteredTasks) THEN Rejected(NotFound, st, {"getTasks"})
        ELSE IF ~s.ok THEN Rejected(StorageError, st, {"getTasks", "saveTasks"})
        ELSE IF ~q.ok
        THEN Rejected(StorageError, q.st, {"getTasks", "saveTasks"} \cup q.calls)
        ELSE Resolved(Null, q.st, {"getTasks", "saveTasks"} \cup q.calls)

\* taskService.getTaskById: the found task in a one-element sequence,
\* <<>> for null
getTaskById(st, id, ok) ==
    LET ts == getTasks(st, ok)
        index == findIndex(ts, id)
    IN  IF index = -1 THEN <<>> ELSE <<ts[index + 1]>>

\* toggleTaskComplete that marks the task completed whatever it was
taskService_toggleTaskComplete_mark(st, c, taskId, e) ==
    LET found == getTaskById(st, taskId, e.getTaskById)
        r == taskService_updateTask(st, c, taskId,
                 [completed |-> TRUE, status |-> "completed"], e)
    IN  IF found = <<>> THEN Rejected(NotFound, st, {"getTaskById"})
        ELSE [r EXCEPT !.calls = @ \cup {"getTaskById"}]

\* taskService.toggleTaskComplete
taskService_toggleTaskComplete(st, c, taskId, e) ==
    LET found == getTaskById(st, taskId, e.getTaskById)
        task == found[1]
        newStatus == IF task.completed THEN "not_started" ELSE "completed"
        r == taskService_updateTask(st, c, taskId,
                 [completed |-> ~task.completed, status |-> newStatus], e)
    IN  IF found = <<>> THEN Rejected(NotFound, st, {"getTaskById"})
        ELSE [r EXCEPT !.calls = @ \cup {"getTaskById"}]

\* updateTaskStatus that writes the status alone
taskService_updateTaskStatus_statusonly(st, c, taskId, status, e) ==
    taskService_updateTask(st, c, taskId, [status |-> status], e)

\* taskService.updateTaskStatus
taskService_updateTaskStatus(st, c, taskId, status, e) ==
    taskService_updateTask(st, c, taskId,
        [status |-> status, completed |-> (status = "completed")], e)

----------------------------------------------------------------------------
(* useSyncStore and what surrounds it *)

\* useSyncStore as created (isOnline true, pendingActions []) on a device
\* whose connectivity is net, with the user signed in (or Null).  check:
\* the initial checkConnectivity of subscribeToConnectivity has not run;
\* event: the NetInfo event the listener has not received yet; effect: the
\* dashboard's auto-sync effect has to run (mount, or a dependency
\* changed); reconciles: the calls of useTaskStore.syncTasks that were made
\* and have not run; received: the last event the listener received
SyncStart(net, user) ==
    [isOnline |-> TRUE, pendingActions |-> <<>>, net |-> net, user |-> user,
     check |-> TRUE, event |-> "none", effect |-> TRUE, reconciles |-> 0,
     received |-> "none", probed |-> "none"]

----------------------------------------------------------------------------
(* The taskService calls that run concurrently (SpecRace) *)

Callers == {1, 2}

\* A call: the await it is suspended at (pc), the operation, and its
\* locals: task is newTask or updatedTask, tasks the array that
\* storage.getTasks() returned, read that array as it was returned,
\* actions the array of saveOfflineAction
NotCalled ==
    [pc |-> "none", op |-> "none", taskId |-> Null, updates |-> <<>>,
     task |-> <<>>, tasks |-> <<>>, read |-> <<>>, action |-> <<>>,
     actions |-> <<>>]

NoCalls == [p \in Callers |-> NotCalled]

Reconcilers == {1, 2}

\* A call of useTaskStore.syncTasks: the await it is suspended at (pc) and
\* its locals: tasks is get().tasks as it read them, actions the log that
\* processOfflineActions read, processed the tasks it returns; removed is
\* the log as removeItem found it
NotReconciling ==
    [pc |-> "none", tasks |-> <<>>, actions |-> <<>>, processed |-> <<>>,
     removed |-> <<>>]

NoReconciles == [r \in Reconcilers |-> NotReconciling]

----------------------------------------------------------------------------
(* The record of the call that ran last *)

NoCall ==
    [op |-> "none", id |-> Null, arg |-> Null, outcome |-> "none",
     err |-> Null, val |-> Null, e |-> AllSucceed, calls |-> {},
     tasks0 |-> <<>>, stored0 |-> Absent, log0 |-> Absent, docs0 |-> <<>>,
     clock0 |-> 0]

Call(op, id, arg, outcome, err, val, e, calls) ==
    [op |-> op, id |-> id, arg |-> arg, outcome |-> outcome, err |-> err,
     val |-> val, e |-> e, calls |-> calls,
     tasks0 |-> tasks, stored0 |-> asyncStorage.tasks,
     log0 |-> asyncStorage.offline_actions, docs0 |-> docs, clock0 |-> clock]

EmptyStorage == [tasks |-> Absent, offline_actions |-> Absent]

\* What the model keeps within its bounds
WithinBounds(ts, st, ds) ==
    /\ Len(ts) <= MaxTasks
    /\ Len(getTasks(st, TRUE)) <= MaxTasks
    /\ Len(getOfflineActions(st, TRUE)) <= MaxLog
    /\ Len(ds) <= MaxDocs

----------------------------------------------------------------------------
(* firestoreService: the backend client.  A document of the 'tasks'        *)
(* collection is a record; a field never written is Undefined.             *)

\* serverTimestamp() as the server resolves it
Timestamp(c) == "TS" \o ToString(c)

\* data.createdAt?.toDate?.() ?? null
toDate(v) ==
    IF \E c \in 0..(MaxClock + 1) : v = Timestamp(c)
    THEN DateObj(CHOOSE c \in 0..(MaxClock + 1) : v = Timestamp(c))
    ELSE Null

\* FirestoreService.toISO on a string or a missing value
toISO(v) == v

\* The Task built from a document's data
taskOfDoc(d) ==
    [id |-> d.id, title |-> d.title, description |-> d.description,
     status |-> d.status, dueDate |-> toISO(d.dueDate), ownerId |-> d.ownerId,
     userId |-> d.userId, completed |-> d.completed,
     assignedDate |-> toISO(d.assignedDate),
     createdAt |-> toDate(d.createdAt), updatedAt |-> toDate(d.updatedAt)]

\* FirestoreService.createTask: the collection afterwards and the task returned
firestoreService_createTask(ds, c, title, description, ownerId, dueDateISO) ==
    LET d == [id |-> "f" \o ToString(Len(ds) + 1), title |-> title,
              description |-> description, ownerId |-> ownerId,
              userId |-> ownerId, status |-> "not_started",
              completed |-> FALSE, createdAt |-> Timestamp(c),
              updatedAt |-> Timestamp(c), dueDate |-> dueDateISO,
              assignedDate |-> Undefined, deletedAt |-> Undefined]
    IN  [docs |-> Append(ds, d), val |-> taskOfDoc(d)]

HasDoc(ds, id) == \E i \in 1..Len(ds) : ds[i].id = id

\* FirestoreService.updateTask: updateDoc with the fields of updates that
\* are defined, and a fresh updatedAt
firestoreService_updateTask(ds, c, taskId, updates) ==
    [i \in 1..Len(ds) |->
        IF ds[i].id = taskId
        THEN Spread(Spread(ds[i], updates), [updatedAt |-> Timestamp(c)])
        ELSE ds[i]]

\* FirestoreService.deleteTask: soft delete
firestoreService_deleteTask(ds, c, taskId) ==
    [i \in 1..Len(ds) |->
        IF ds[i].id = taskId THEN [ds[i] EXCEPT !.deletedAt = Timestamp(c)]
        ELSE ds[i]]

\* FirestoreService.fetchAllTasks: every document, newest first (documents
\* are kept in creation order, with ids that grow with it)
fetchAllTasks(ds) ==
    [i \in 1..Len(ds) |-> taskOfDoc(ds[Len(ds) + 1 - i])]

----------------------------------------------------------------------------
(* Arguments of the calls *)

IdsOf(ts) == {ts[i].id : i \in 1..Len(ts)}

\* The identifiers a caller may pass: every identifier in use, and one
\* that no task has
TaskIdArgs ==
    IdsOf(tasks) \cup IdsOf(getTasks(asyncStorage, TRUE)) \cup IdsOf(docs)
        \cup {"none"}

\* updates as TaskDetailScreen.handleSave passes them
UpdateArgs ==
    {[title |-> "B", description |-> d, status |-> s, dueDate |-> due] :
        d \in Descriptions, s \in {"in_progress", "completed"}, due \in DueDates}

\* state.tasks.map((task) => (task.id === taskId ? new : task)), where
\* new[i] is the replacement computed from the i-th task
MapTask(ts, taskId, new) ==
    [i \in 1..Len(ts) |-> IF ts[i].id = taskId THEN new[i] ELSE ts[i]]

----------------------------------------------------------------------------
(* Spec: the application.  The handlers of useTaskStore, a process         *)
(* restart and the clock.                                                  *)

Init ==
    /\ tasks = <<>>
    /\ isLoading = FALSE
    /\ error = Null
    /\ asyncStorage = EmptyStorage
    /\ docs = <<>>
    /\ clock = 1
    /\ steps = 0
    /\ last = NoCall
    /\ sync = SyncStart(TRUE, "u1")
    /\ inflight = NoCalls
    /\ reconciling = NoReconciles

\* What a handler of useTaskStore leaves when it ends
Settle(op, id, arg, e, calls, outcome, err, ts, st, ds) ==
    /\ steps' = steps + 1
    /\ Reached(e, calls)
    /\ WithinBounds(ts, st, ds)
    /\ tasks' = ts
    /\ asyncStorage' = st
    /\ docs' = ds
    /\ error' = err
    /\ isLoading' = FALSE
    /\ last' = Call(op, id, arg, outcome, err, Null, e, calls)
    /\ UNCHANGED <<clock, inflight, reconciling>>

\* The end of a handler of useTaskStore: no handler touches useSyncStore
Finish(op, id, arg, e, calls, outcome, err, ts, st, ds) ==
    /\ Settle(op, id, arg, e, calls, outcome, err, ts, st, ds)
    /\ UNCHANGED sync

\* useTaskStore.fetchTasks
useTaskStore_fetchTasks ==
    /\ steps < MaxSteps
    /\ \E e \in FetchOutcomes :
        IF e.firestore
        THEN Finish("fetchTasks", Null, Null, e, {"firestore"}, "resolved",
                    Null, fetchAllTasks(docs), asyncStorage, docs)
        ELSE Finish("fetchTasks", Null, Null, e, {"firestore", "getTasks"},
                    "resolved", Null, getTasks(asyncStorage, e.getTasks),
                    asyncStorage, docs)

\* useTaskStore.createTask
createTaskWith(e) ==
    \E title \in Titles, description \in Descriptions, userId \in UserIds,
       dueDate \in DueDates :
        LET fs == firestoreService_createTask(docs, clock, title, description,
                                              userId, dueDate)
            r == taskService_createTask(asyncStorage, clock, title,
                                        description, userId, dueDate, e)
            arg == [title |-> title, description |-> description,
                    userId |-> userId, dueDate |-> dueDate]
        IN  IF e.firestore
            THEN Finish("createTask", Null, arg, e, {"firestore"}, "resolved",
                        Null, Append(tasks, fs.val), asyncStorage, fs.docs)
            ELSE IF r.ok
            THEN Finish("createTask", Null, arg, e, {"firestore"} \cup r.calls,
                        "resolved", Null, Append(tasks, r.val), r.st, docs)
            ELSE Finish("createTask", Null, arg, e, {"firestore"} \cup r.calls,
                        "rejected", r.err, tasks, r.st, docs)

useTaskStore_createTask ==
    /\ steps < MaxSteps
    /\ \E e \in StoreOutcomes : createTaskWith(e)

\* useTaskStore.updateTask
updateTaskWith(e) ==
    \E taskId \in TaskIdArgs, updates \in UpdateArgs :
        LET r == taskService_updateTask(asyncStorage, clock, taskId, updates, e)
            merged == MapTask(tasks, taskId, [i \in DOMAIN tasks |-> Spread(tasks[i], updates)])
        IN  IF e.firestore /\ HasDoc(docs, taskId)
            THEN Finish("updateTask", taskId, updates, e, {"firestore"},
                        "resolved", Null, merged, asyncStorage,
                        firestoreService_updateTask(docs, clock, taskId, updates))
            ELSE IF e.firestore THEN FALSE
            ELSE IF r.ok
            THEN Finish("updateTask", taskId, updates, e,
                        {"firestore"} \cup r.calls, "resolved", Null,
                        MapTask(tasks, taskId, [i \in DOMAIN tasks |-> r.val]), r.st, docs)
            ELSE Finish("updateTask", taskId, updates, e,
                        {"firestore"} \cup r.calls, "resolved", Null,
                        merged, r.st, docs)

useTaskStore_updateTask ==
    /\ steps < MaxSteps
    /\ \E e \in StoreOutcomes : updateTaskWith(e)

\* useTaskStore.deleteTask
useTaskStore_deleteTask ==
    /\ steps < MaxSteps
    /\ \E taskId \in TaskIdArgs, e \in StoreOutcomes :
        LET r == taskService_deleteTask(asyncStorage, clock, taskId, e)
            removed == SelectSeq(tasks, LAMBDA t : t.id # taskId)
        IN  IF e.firestore /\ HasDoc(docs, taskId)
            THEN Finish("deleteTask", taskId, Null, e, {"firestore"},
                        "resolved", Null, removed, asyncStorage,
                        firestoreService_deleteTask(docs, clock, taskId))
            ELSE IF e.firestore THEN FALSE
            ELSE IF r.ok
            THEN Finish("deleteTask", taskId, Null, e,
                        {"firestore"} \cup r.calls, "resolved", Null, removed,
                        r.st, docs)
            ELSE Finish("deleteTask", taskId, Null, e,
                        {"firestore"} \cup r.calls, "rejected", r.err, tasks,
                        r.st, docs)

\* useTaskStore.toggleTaskComplete
useTaskStore_toggleTaskComplete ==
    /\ steps < MaxSteps
    /\ \E taskId \in TaskIdArgs, e \in StoreOutcomes :
        LET index == findIndex(tasks, taskId)
            newCompleted == ~tasks[index + 1].completed
            r == taskService_toggleTaskComplete(asyncStorage, clock, taskId, e)
            toggled == MapTask(tasks, taskId,
                           [i \in DOMAIN tasks |->
                               [tasks[i] EXCEPT !.completed = newCompleted]])
        IN  IF index = -1
            THEN Finish("toggleTaskComplete", taskId, Null, e, {}, "rejected",
                        NotFound, tasks, asyncStorage, docs)
            ELSE IF e.firestore /\ HasDoc(docs, taskId)
            THEN Finish("toggleTaskComplete", taskId, Null, e, {"firestore"},
                        "resolved", Null, toggled, asyncStorage,
                        firestoreService_updateTask(docs, clock, taskId,
                            [completed |-> newCompleted]))
            ELSE IF e.firestore THEN FALSE
            ELSE IF r.ok
            THEN Finish("toggleTaskComplete", taskId, Null, e,
                        {"firestore"} \cup r.calls, "resolved", Null, toggled,
                        r.st, docs)
            ELSE Finish("toggleTaskComplete", taskId, Null, e,
                        {"firestore"} \cup r.calls, "rejected", r.err, tasks,
                        r.st, docs)

\* useTaskStore.updateTaskStatus
useTaskStore_updateTaskStatus ==
    /\ steps < MaxSteps
    /\ \E taskId \in TaskIdArgs, status \in TaskStatus,
       e \in StoreOutcomes :
        LET r == taskService_updateTaskStatus(asyncStorage, clock, taskId,
                                              status, e)
            changed == MapTask(tasks, taskId,
                           [i \in DOMAIN tasks |->
                               [tasks[i] EXCEPT !.status = status]])
        IN  IF e.firestore /\ HasDoc(docs, taskId)
            THEN Finish("updateTaskStatus", taskId, status, e, {"firestore"},
                        "resolved", Null, changed, asyncStorage,
                        firestoreService_updateTask(docs, clock, taskId,
                            [status |-> status]))
            ELSE IF e.firestore THEN FALSE
            ELSE IF r.ok
            THEN Finish("updateTaskStatus", taskId, status, e,
                        {"firestore"} \cup r.calls, "resolved", Null, changed,
                        r.st, docs)
            ELSE Finish("updateTaskStatus", taskId, status, e,
                        {"firestore"} \cup r.calls, "rejected", r.err, tasks,
                        r.st, docs)

\* The body of useTaskStore.syncTasks, the reconcile, on the in-memory
\* snapshot ts: the calls it reached, the error it set, the snapshot it set
\* and AsyncStorage afterwards
reconcile(st, ts, e) ==
    LET syncedTasks == syncTasks(st, ts, e)
        processedTasks == processOfflineActions(syncedTasks.st,
                                                syncedTasks.val, e)
    IN  IF ~e.checkConnectivity
        THEN [calls |-> {"checkConnectivity"}, err |-> Null, tasks |-> ts,
              st |-> st]
        ELSE IF ~syncedTasks.ok
        THEN [calls |-> {"checkConnectivity"} \cup syncedTasks.calls,
              err |-> syncedTasks.err, tasks |-> ts, st |-> syncedTasks.st]
        ELSE [calls |-> {"checkConnectivity"} \cup syncedTasks.calls
                            \cup processedTasks.calls,
              err |-> Null, tasks |-> processedTasks.val,
              st |-> processedTasks.st]

\* useTaskStore.syncTasks
useTaskStore_syncTasks ==
    /\ steps < MaxSteps
    /\ \E e \in SyncOutcomes :
        LET r == reconcile(asyncStorage, tasks, e)
        IN  Finish("syncTasks", Null, Null, e, r.calls, "resolved", r.err,
                   r.tasks, r.st, docs)

\* The process restarts: the store is constructed anew, AsyncStorage and
\* the backend keep what they hold
Restart ==
    /\ tasks' = <<>>
    /\ isLoading' = FALSE
    /\ error' = Null
    /\ last' = NoCall
    /\ UNCHANGED <<asyncStorage, docs, clock, steps, sync, inflight, reconciling>>

\* Date.now() advances
Tick ==
    /\ clock < MaxClock
    /\ clock' = clock + 1
    /\ UNCHANGED <<tasks, isLoading, error, asyncStorage, docs, steps, last, sync,
                   inflight, reconciling>>

Next ==
    \/ useTaskStore_fetchTasks
    \/ useTaskStore_createTask
    \/ useTaskStore_updateTask
    \/ useTaskStore_deleteTask
    \/ useTaskStore_toggleTaskComplete
    \/ useTaskStore_updateTaskStatus
    \/ useTaskStore_syncTasks
    \/ Restart
    \/ Tick

Spec == Init /\ [][Next]_vars

----------------------------------------------------------------------------
(* SpecService: the operations of taskService called directly, as the      *)
(* service tests call them.  useTaskStore is not involved.                 *)

\* The end of a call of taskService
ServiceFinish(op, id, arg, e, r) ==
    /\ Reached(e, r.calls)
    /\ WithinBounds(tasks, r.st, docs)
    /\ asyncStorage' = r.st
    /\ steps' = steps + 1
    /\ last' = Call(op, id, arg, IF r.ok THEN "resolved" ELSE "rejected",
                    r.err, r.val, e, r.calls)
    /\ UNCHANGED <<tasks, isLoading, error, docs, clock, sync, inflight, reconciling>>

\* Partial<Task> as the callers of taskService.updateTask pass it
ServiceUpdateArgs ==
    UpdateArgs \cup {[title |-> "B", completed |-> TRUE, status |-> "completed"]}

\* dueDate?: string, given or left out
ServiceDueDates == DueDates \cup {"2026-01-31"}

\* await taskService.createTask(title, description, userId, dueDate)
CallCreateTask ==
    /\ steps < MaxSteps
    /\ \E title \in Titles, description \in Descriptions, userId \in UserIds,
          dueDate \in ServiceDueDates, e \in ServiceOutcomes :
          ServiceFinish("createTask", Null,
              [title |-> title, description |-> description,
               userId |-> userId, dueDate |-> dueDate], e,
              taskService_createTask(asyncStorage, clock, title, description,
                                     userId, dueDate, e))

\* await taskService.updateTask(taskId, updates)
CallUpdateTask ==
    /\ steps < MaxSteps
    /\ \E taskId \in TaskIdArgs, updates \in ServiceUpdateArgs,
          e \in ServiceOutcomes :
          ServiceFinish("updateTask", taskId, updates, e,
              taskService_updateTask(asyncStorage, clock, taskId, updates, e))

\* await taskService.deleteTask(taskId)
CallDeleteTask ==
    /\ steps < MaxSteps
    /\ \E taskId \in TaskIdArgs, e \in ServiceOutcomes :
          ServiceFinish("deleteTask", taskId, Null, e,
              taskService_deleteTask(asyncStorage, clock, taskId, e))

\* await taskService.toggleTaskComplete(taskId)
CallToggleTaskComplete ==
    /\ steps < MaxSteps
    /\ \E taskId \in TaskIdArgs, e \in ServiceOutcomes :
          ServiceFinish("toggleTaskComplete", taskId, Null, e,
              taskService_toggleTaskComplete(asyncStorage, clock, taskId, e))

\* await taskService.updateTaskStatus(taskId, status)
CallUpdateTaskStatus ==
    /\ steps < MaxSteps
    /\ \E taskId \in TaskIdArgs, status \in TaskStatus, e \in ServiceOutcomes :
          ServiceFinish("updateTaskStatus", taskId, status, e,
              taskService_updateTaskStatus(asyncStorage, clock, taskId,
                                           status, e))

NextService ==
    \/ CallCreateTask
    \/ CallUpdateTask
    \/ CallDeleteTask
    \/ CallToggleTaskComplete
    \/ CallUpdateTaskStatus
    \/ Tick

SpecService == Init /\ [][NextService]_vars

----------------------------------------------------------------------------
(* SpecAuto: the application with its connectivity monitoring.  The        *)
(* device is online or offline (sync.net); NetInfo.fetch() and the         *)
(* backend answer accordingly, and AsyncStorage does not fail.  The        *)
(* callbacks the application schedules run one at a time.                  *)

InitAuto ==
    /\ tasks = <<>>
    /\ isLoading = FALSE
    /\ error = Null
    /\ asyncStorage = EmptyStorage
    /\ docs = <<>>
    /\ clock = 1
    /\ steps = 0
    /\ last = NoCall
    /\ \E net \in BOOLEAN, user \in UserIds \cup {Null} :
          sync = SyncStart(net, user)
    /\ inflight = NoCalls
    /\ reconciling = NoReconciles

\* The dependencies of the dashboard's auto-sync effect
EffectDeps(y) == <<y.isOnline, Len(y.pendingActions)>>

\* useSyncStore.checkConnectivity, the initial check of
\* subscribeToConnectivity
useSyncStore_checkConnectivity ==
    /\ sync.check
    /\ LET checked == [sync EXCEPT !.check = FALSE,
                                   !.isOnline = sync.net,
                                   !.pendingActions =
                                        getOfflineActions(asyncStorage, TRUE)]
       IN  sync' = [checked EXCEPT !.effect =
                        @ \/ EffectDeps(checked) # EffectDeps(sync)]
    /\ UNCHANGED <<tasks, isLoading, error, asyncStorage, docs, clock, steps, last,
                   inflight, reconciling>>

\* The device gains or loses its connection: NetInfo emits an event, whose
\* isConnected is true, false, or null ("unknown") when the connection is
\* lost
NetInfoChange ==
    /\ sync.event = "none"
    /\ \E lost \in {"offline", "unknown"} :
          sync' = [sync EXCEPT !.net = ~sync.net,
                               !.event = IF sync.net THEN lost ELSE "online"]
    /\ UNCHANGED <<tasks, isLoading, error, asyncStorage, docs, clock, steps, last,
                   inflight, reconciling>>

\* A listener that acts on the events that report a connection only
ConnectivityListener_online ==
    /\ sync.event # "none"
    /\ LET isConnected == (sync.event = "online")
           autoSync == /\ isConnected
                       /\ Len(sync.pendingActions) > 0
                       /\ sync.user # Null
       IN  /\ autoSync => sync.reconciles < MaxReconciles
           /\ sync' = [sync EXCEPT !.event = "none",
                                   !.received = sync.event,
                                   !.isOnline = @ \/ isConnected,
                                   !.effect = @ \/ (isConnected /\ ~sync.isOnline),
                                   !.reconciles =
                                        IF autoSync THEN @ + 1 ELSE @]
    /\ UNCHANGED <<tasks, isLoading, error, asyncStorage, docs, clock, steps, last,
                   inflight, reconciling>>

\* The listener of subscribeToConnectivity receives the event
ConnectivityListener ==
    /\ sync.event # "none"
    /\ LET isConnected == (sync.event = "online")
           autoSync == /\ isConnected
                       /\ Len(sync.pendingActions) > 0
                       /\ sync.user # Null
       IN  /\ autoSync => sync.reconciles < MaxReconciles
           /\ sync' = [sync EXCEPT !.event = "none",
                                   !.received = sync.event,
                                   !.isOnline = isConnected,
                                   !.effect = @ \/ (isConnected # sync.isOnline),
                                   !.reconciles =
                                        IF autoSync THEN @ + 1 ELSE @]
    /\ UNCHANGED <<tasks, isLoading, error, asyncStorage, docs, clock, steps, last,
                   inflight, reconciling>>

\* TaskDashboardScreen's auto-sync effect; the dashboard is shown to a
\* signed-in user
DashboardAutoSync ==
    /\ sync.effect
    /\ sync.user # Null
    /\ LET autoSync == sync.isOnline /\ Len(sync.pendingActions) > 0
       IN  /\ autoSync => sync.reconciles < MaxReconciles
           /\ sync' = [sync EXCEPT !.effect = FALSE,
                                   !.reconciles =
                                        IF autoSync THEN @ + 1 ELSE @]
    /\ UNCHANGED <<tasks, isLoading, error, asyncStorage, docs, clock, steps, last,
                   inflight, reconciling>>

\* A call of useTaskStore.syncTasks made by the listener or by the effect
AutoReconcile ==
    /\ steps < MaxSteps
    /\ sync.reconciles > 0
    /\ LET e == [AllSucceed EXCEPT !.checkConnectivity = sync.net]
           r == reconcile(asyncStorage, tasks, e)
       IN  Settle("syncTasks", Null, Null, e, r.calls, "resolved", r.err,
                  r.tasks, r.st, docs)
    /\ sync' = [sync EXCEPT !.reconciles = @ - 1]

\* The signed-in user creates a task
AutoCreateTask ==
    /\ steps < MaxSteps
    /\ sync.user # Null
    /\ createTaskWith([AllSucceed EXCEPT !.firestore = sync.net,
                                         !.checkConnectivity = sync.net])

\* The application is closed and started again
AutoRestart ==
    /\ tasks' = <<>>
    /\ isLoading' = FALSE
    /\ error' = Null
    /\ last' = NoCall
    /\ sync' = SyncStart(sync.net, sync.user)
    /\ UNCHANGED <<asyncStorage, docs, clock, steps, inflight, reconciling>>

NextAuto ==
    \/ useSyncStore_checkConnectivity
    \/ NetInfoChange
    \/ ConnectivityListener
    \/ DashboardAutoSync
    \/ AutoReconcile
    \/ AutoCreateTask
    \/ AutoRestart

SpecAuto == InitAuto /\ [][NextAuto]_vars

----------------------------------------------------------------------------
(* SpecProbe: the initial check of subscribeToConnectivity running from    *)
(* one await to the next, while NetInfo emits events and the listener      *)
(* receives them.                                                          *)

\* useSyncStore.checkConnectivity: NetInfo.fetch() resolves with the state
\* of the connection at that moment (isConnected ?? false), and
\* syncService.getOfflineActions() is awaited
ProbeFetch ==
    /\ sync.check
    /\ sync.probed = "none"
    /\ sync' = [sync EXCEPT !.probed = IF sync.net THEN "online" ELSE "offline"]
    /\ UNCHANGED <<tasks, isLoading, error, asyncStorage, docs, clock, steps, last,
                   inflight, reconciling>>

\* useSyncStore.checkConnectivity: getOfflineActions() resolves and
\* set({ isOnline: isConnected, pendingActions: actions })
ProbeSet ==
    /\ sync.check
    /\ sync.probed # "none"
    /\ LET checked == [sync EXCEPT !.check = FALSE,
                                   !.isOnline = (sync.probed = "online"),
                                   !.pendingActions =
                                        getOfflineActions(asyncStorage, TRUE)]
       IN  sync' = [checked EXCEPT !.effect =
                        @ \/ EffectDeps(checked) # EffectDeps(sync)]
    /\ UNCHANGED <<tasks, isLoading, error, asyncStorage, docs, clock, steps, last,
                   inflight, reconciling>>

NextProbe ==
    \/ ProbeFetch
    \/ ProbeSet
    \/ NetInfoChange
    \/ ConnectivityListener
    \/ AutoCreateTask
    \/ AutoRestart

SpecProbe == InitAuto /\ [][NextProbe]_vars

----------------------------------------------------------------------------
(* SpecConflict: the application creating, updating and reconciling while  *)
(* the backend and the connection come and go; AsyncStorage does not fail. *)

\* The outcomes of the calls of a handler when only Firestore and the
\* NetInfo probes vary
ConflictOutcomes ==
    UNION {{e} : e \in {o \in Outcomes({"firestore", "checkConnectivity",
                                        "syncProbe"}) :
                            /\ CallOrder(o)
                            /\ o.firestore => \A c \in CallSites : o[c]}}

ConflictCreateTask ==
    /\ steps < MaxConflictSteps
    /\ \E e \in ConflictOutcomes : createTaskWith(e)

ConflictUpdateTask ==
    /\ steps < MaxConflictSteps
    /\ \E e \in ConflictOutcomes : updateTaskWith(e)

ConflictSyncOutcomes ==
    UNION {{e} : e \in {o \in Outcomes({"checkConnectivity", "syncProbe"}) :
                            CallOrder(o)}}

ConflictSyncTasks ==
    /\ steps < MaxConflictSteps
    /\ \E e \in ConflictSyncOutcomes :
        LET r == reconcile(asyncStorage, tasks, e)
        IN  Finish("syncTasks", Null, Null, e, r.calls, "resolved", r.err,
                   r.tasks, r.st, docs)

NextConflict ==
    \/ ConflictCreateTask
    \/ ConflictUpdateTask
    \/ ConflictSyncTasks
    \/ Tick

SpecConflict == Init /\ [][NextConflict]_vars

----------------------------------------------------------------------------
(* SpecFold: syncService.processOfflineActions on every snapshot and log   *)
(* over a bounded set of ids                                               *)

FoldIds == {"t1", "t2"}

FoldTask(id, title) ==
    Task(id, title, "d", FALSE, "not_started", toISOString(1), Undefined,
         toISOString(1), toISOString(1), "u1")

\* The snapshots hold tasks titled "A"; a queued UPDATE carries the title "B"
FoldTasks == {FoldTask(id, "A") : id \in FoldIds}

FoldActions ==
    {OfflineAction("a", "CREATE", FoldTask(id, "A"), toISOString(1)) : id \in FoldIds}
    \cup {OfflineAction("a", "UPDATE", FoldTask(id, "B"), toISOString(1)) : id \in FoldIds}
    \cup {OfflineAction("a", "DELETE", [id |-> id], toISOString(1)) : id \in FoldIds}

SeqsUpTo(S, n) == UNION {[1..k -> S] : k \in 0..n}

\* The durable snapshot the calls start from: nothing stored, or a task
\* that differs from every task of the argument
FoldStored == {Absent, Blob(<<FoldTask("t2", "B")>>)}

InitFold ==
    /\ tasks \in SeqsUpTo(FoldTasks, MaxFoldTasks)
    /\ \E l \in SeqsUpTo(FoldActions, MaxFoldLog), d \in FoldStored :
          asyncStorage = [tasks |-> d,
                          offline_actions |-> IF l = <<>> THEN Absent ELSE Blob(l)]
    /\ isLoading = FALSE
    /\ error = Null
    /\ docs = <<>>
    /\ clock = 1
    /\ steps = 0
    /\ last = NoCall
    /\ sync = SyncStart(TRUE, "u1")
    /\ inflight = NoCalls
    /\ reconciling = NoReconciles

FoldOutcomes == UNION {{e} : e \in Outcomes({"getActions", "clearActions"})}

\* await syncService.processOfflineActions(tasks)
FoldProcessOfflineActions ==
    \E e \in FoldOutcomes :
        LET r == processOfflineActions(asyncStorage, tasks, e)
        IN  /\ asyncStorage' = r.st
            /\ last' = Call("processOfflineActions", Null, tasks, "resolved",
                            Null, r.val, e, r.calls)
            /\ UNCHANGED <<tasks, isLoading, error, docs, clock, steps, sync,
                           inflight, reconciling>>

FoldSyncOutcomes ==
    UNION {{e} : e \in {o \in Outcomes({"syncProbe", "syncSave"}) : CallOrder(o)}}

\* await syncService.syncTasks(tasks)
FoldSyncTasks ==
    \E e \in FoldSyncOutcomes :
        LET r == syncTasks(asyncStorage, tasks, e)
        IN  /\ Reached(e, r.calls)
            /\ asyncStorage' = r.st
            /\ last' = Call("syncService.syncTasks", Null, tasks,
                            IF r.ok THEN "resolved" ELSE "rejected",
                            r.err, r.val, e, r.calls)
            /\ UNCHANGED <<tasks, isLoading, error, docs, clock, steps, sync,
                           inflight, reconciling>>

NextFold ==
    \/ FoldProcessOfflineActions
    \/ FoldSyncTasks

SpecFold == InitFold /\ [][NextFold]_vars

----------------------------------------------------------------------------
(* SpecLog: the operations of the Offline Action Log called directly, as   *)
(* the sync tests call them, on every log of the bounds; the AsyncStorage  *)
(* calls may throw.                                                        *)

InitLog ==
    /\ tasks = <<>>
    /\ isLoading = FALSE
    /\ error = Null
    /\ \E l \in SeqsUpTo(FoldActions, MaxLog) :
          asyncStorage = [tasks |-> Absent,
                          offline_actions |-> IF l = <<>> THEN Absent ELSE Blob(l)]
    /\ docs = <<>>
    /\ clock = 1
    /\ steps = 0
    /\ last = NoCall
    /\ sync = SyncStart(TRUE, "u1")
    /\ inflight = NoCalls
    /\ reconciling = NoReconciles

\* The end of a call of the log
LogFinish(op, arg, ok, val, st, e, calls) ==
    /\ asyncStorage' = st
    /\ last' = Call(op, Null, arg, IF ok THEN "resolved" ELSE "rejected",
                    IF ok THEN Null ELSE StorageError, val, e, calls)
    /\ UNCHANGED <<tasks, isLoading, error, docs, clock, steps, sync, inflight, reconciling>>

\* await syncService.getOfflineActions()
CallGetOfflineActions ==
    \E e \in Outcomes({"getActions"}) :
        LogFinish("getOfflineActions", Null, TRUE,
                  getOfflineActions(asyncStorage, e.getActions), asyncStorage,
                  e, {"getActions"})

\* await syncService.saveOfflineAction(action)
CallSaveOfflineAction ==
    /\ Len(getOfflineActions(asyncStorage, TRUE)) <= MaxLog
    /\ \E action \in FoldActions, e \in Outcomes({"getActions", "setActions"}) :
          LET q == saveOfflineAction(asyncStorage, action, e)
          IN  LogFinish("saveOfflineAction", action, q.ok, Null, q.st, e, q.calls)

\* await syncService.clearOfflineActions()
CallClearOfflineActions ==
    \E e \in Outcomes({"clearActions"}) :
        LogFinish("clearOfflineActions", Null, TRUE, Null,
                  clearOfflineActions(asyncStorage, e.clearActions), e,
                  {"clearActions"})

NextLog ==
    \/ CallGetOfflineActions
    \/ CallSaveOfflineAction
    \/ CallClearOfflineActions

SpecLog == InitLog /\ [][NextLog]_vars

----------------------------------------------------------------------------
(* SpecStorage: the Durable Task Store called directly.  The arrays        *)
(* written hold tasks as taskService builds them and tasks as              *)
(* firestoreService returns them, whose createdAt and updatedAt are Date   *)
(* objects: useTaskStore.syncTasks hands the in-memory snapshot to         *)
(* syncService.syncTasks, which hands it to storage.saveTasks.             *)

StorageTasks ==
    {FoldTask("t1", "A"), FoldTask("t2", "B"),
     firestoreService_createTask(<<>>, 1, "A", "d", "u1", Undefined).val}

\* The end of a call of storage
StorageFinish(op, arg, ok, val, st, e, calls) ==
    /\ asyncStorage' = st
    /\ last' = Call(op, Null, arg, IF ok THEN "resolved" ELSE "rejected",
                    IF ok THEN Null ELSE StorageError, val, e, calls)
    /\ UNCHANGED <<tasks, isLoading, error, docs, clock, steps, sync, inflight, reconciling>>

\* await storage.saveTasks(tasks)
CallSaveTasks ==
    \E ts \in SeqsUpTo(StorageTasks, MaxTasks), e \in Outcomes({"saveTasks"}) :
        LET s == saveTasks(asyncStorage, ts, e.saveTasks)
        IN  StorageFinish("storage.saveTasks", ts, s.ok, Null, s.st, e,
                          {"saveTasks"})

\* await storage.getTasks()
CallGetTasks ==
    \E e \in Outcomes({"getTasks"}) :
        StorageFinish("storage.getTasks", Null, TRUE,
                      getTasks(asyncStorage, e.getTasks), asyncStorage, e,
                      {"getTasks"})

NextStorage ==
    \/ CallSaveTasks
    \/ CallGetTasks

SpecStorage == Init /\ [][NextStorage]_vars

----------------------------------------------------------------------------
(* useTaskStore.filterTasks and SpecFilter: the read-side operation on     *)
(* every snapshot of the bounds.  Strings are strings over the letters     *)
(* a, b, A, B, d and the space.                                            *)

\* String.prototype.toLowerCase on one character
LowerChar(ch) ==
    CASE ch = "A" -> "a"
      [] ch = "B" -> "b"
      [] OTHER -> ch

\* String.prototype.toLowerCase
RECURSIVE toLowerCase(_)
toLowerCase(str) ==
    IF str = "" THEN ""
    ELSE LowerChar(SubSeq(str, 1, 1)) \o toLowerCase(SubSeq(str, 2, Len(str)))

\* String.prototype.trim
RECURSIVE trim(_)
trim(str) ==
    IF str = "" THEN ""
    ELSE IF SubSeq(str, 1, 1) = " " THEN trim(SubSeq(str, 2, Len(str)))
    ELSE IF SubSeq(str, Len(str), Len(str)) = " "
    THEN trim(SubSeq(str, 1, Len(str) - 1))
    ELSE str

\* String.prototype.includes
includes(str, query) ==
    \E i \in 0..(Len(str) - Len(query)) : SubSeq(str, i + 1, i + Len(query)) = query

\* The place of a lower-case character in the collation order
Rank(ch) ==
    CASE ch = " " -> 0
      [] ch = "a" -> 1
      [] ch = "b" -> 2
      [] ch = "d" -> 3

\* The strings compared character by character in that order
RECURSIVE LexCompare(_, _)
LexCompare(x, y) ==
    IF x = "" THEN (IF y = "" THEN 0 ELSE -1)
    ELSE IF y = "" THEN 1
    ELSE IF Rank(SubSeq(x, 1, 1)) < Rank(SubSeq(y, 1, 1)) THEN -1
    ELSE IF Rank(SubSeq(x, 1, 1)) > Rank(SubSeq(y, 1, 1)) THEN 1
    ELSE LexCompare(SubSeq(x, 2, Len(x)), SubSeq(y, 2, Len(y)))

\* Strings with the same letters: at the first difference of case the
\* lower-case letter goes first
RECURSIVE CaseCompare(_, _)
CaseCompare(x, y) ==
    IF x = "" \/ y = "" THEN 0
    ELSE IF SubSeq(x, 1, 1) = SubSeq(y, 1, 1)
    THEN CaseCompare(SubSeq(x, 2, Len(x)), SubSeq(y, 2, Len(y)))
    ELSE IF LowerChar(SubSeq(x, 1, 1)) = SubSeq(x, 1, 1) THEN -1 ELSE 1

\* String.prototype.localeCompare: the letters decide, then their case
localeCompare(x, y) ==
    LET letters == LexCompare(toLowerCase(x), toLowerCase(y))
    IN  IF letters # 0 THEN letters ELSE CaseCompare(x, y)

\* new Date(v).getTime() for an ISO string, and for 0
getTime(v) ==
    IF \E c \in 0..(MaxClock + 1) : v = toISOString(c)
    THEN CHOOSE c \in 0..(MaxClock + 1) : v = toISOString(c)
    ELSE 0

\* a.assignedDate ?? 0
OrZero(v) == IF v \in {Undefined, Null} THEN toISOString(0) ELSE v

\* !a.dueDate
Missing(v) == v \in {Undefined, Null, ""}

\* A comparator that puts the tasks without a due date first
compare_missingfirst(a, b, sortBy) ==
    CASE sortBy = "assignedDate" ->
            getTime(OrZero(a.assignedDate)) - getTime(OrZero(b.assignedDate))
      [] sortBy = "dueDate" ->
            IF Missing(a.dueDate) /\ Missing(b.dueDate) THEN 0
            ELSE IF Missing(a.dueDate) THEN -1
            ELSE IF Missing(b.dueDate) THEN 1
            ELSE getTime(a.dueDate) - getTime(b.dueDate)
      [] sortBy = "title" -> localeCompare(a.title, b.title)
      [] OTHER -> 0

\* The comparator handed to filtered.sort
compare(a, b, sortBy) ==
    CASE sortBy = "assignedDate" ->
            getTime(OrZero(a.assignedDate)) - getTime(OrZero(b.assignedDate))
      [] sortBy = "dueDate" ->
            IF Missing(a.dueDate) /\ Missing(b.dueDate) THEN 0
            ELSE IF Missing(a.dueDate) THEN 1
            ELSE IF Missing(b.dueDate) THEN -1
            ELSE getTime(a.dueDate) - getTime(b.dueDate)
      [] sortBy = "title" -> localeCompare(a.title, b.title)
      [] OTHER -> 0

\* Array.prototype.sort, which is stable: the first n elements of ts sorted
RECURSIVE sort(_, _, _)
sort(ts, n, sortBy) ==
    IF n = 0 THEN <<>>
    ELSE LET sorted == sort(ts, n - 1, sortBy)
             k == Cardinality({i \in 1..Len(sorted) :
                                  compare(sorted[i], ts[n], sortBy) <= 0})
         IN  SubSeq(sorted, 1, k) \o <<ts[n]>> \o SubSeq(sorted, k + 1, Len(sorted))

\* The search of filterTasks
searchTasks(ts, searchQuery) ==
    IF trim(searchQuery) # ""
    THEN LET query == toLowerCase(searchQuery)
         IN  SelectSeq(ts, LAMBDA task :
                 \/ includes(toLowerCase(task.title), query)
                 \/ includes(toLowerCase(task.description), query))
    ELSE ts

\* filterTasks whose status filter, when given, takes the place of the search
filterTasks_either(ts, searchQuery, sortBy, filterByStatus) ==
    LET filtered ==
            IF filterByStatus # Undefined
            THEN SelectSeq(ts, LAMBDA task : task.status = filterByStatus)
            ELSE searchTasks(ts, searchQuery)
    IN  [val |-> sort(filtered, Len(filtered), sortBy), tasks |-> ts]

\* filterTasks that sorts the store's own array when no filter made a new one
filterTasks_inplace(ts, searchQuery, sortBy, filterByStatus) ==
    LET searched == searchTasks(ts, searchQuery)
        filtered ==
            IF filterByStatus # Undefined
            THEN SelectSeq(searched, LAMBDA task : task.status = filterByStatus)
            ELSE searched
        val == sort(filtered, Len(filtered), sortBy)
    IN  [val |-> val,
         tasks |-> IF trim(searchQuery) = "" /\ filterByStatus = Undefined
                   THEN val ELSE ts]

\* useTaskStore.filterTasks: the list returned, and the store's tasks
\* afterwards (the sort acts on the copy [...get().tasks])
filterTasks(ts, searchQuery, sortBy, filterByStatus) ==
    LET searched == searchTasks(ts, searchQuery)
        filtered ==
            IF filterByStatus # Undefined
            THEN SelectSeq(searched, LAMBDA task : task.status = filterByStatus)
            ELSE searched
    IN  [val |-> sort(filtered, Len(filtered), sortBy), tasks |-> ts]

FilterTask(id, title, description, status, assignedDate, dueDate) ==
    Task(id, title, description, status = "completed", status, assignedDate,
         dueDate, toISOString(1), toISOString(1), "u1")

\* Tasks as taskService builds them, and one without an assigned date, as
\* firestoreService returns them
FilterTasks ==
    {FilterTask("1", "Ab", "d", "not_started", toISOString(2), toISOString(2)),
     FilterTask("2", "b", "d a", "completed", toISOString(1), Undefined),
     FilterTask("3", "B", "", "completed", Undefined, toISOString(1)),
     FilterTask("4", "ab", "d", "in_progress", toISOString(1), toISOString(1)),
     FilterTask("5", "a", "B", "not_started", toISOString(2), Undefined)}

SearchQueries == {"", " ", "a", "AB", "d ", "b"}
SortKeys == {"assignedDate", "dueDate", "title"}
StatusFilters == {Undefined, "completed", "not_started"}

\* The store is idle without an error, or loading with the error of an
\* earlier call; AsyncStorage holds nothing, or a snapshot and a log
InitFilter ==
    /\ tasks \in SeqsUpTo(FilterTasks, MaxFilterTasks)
    /\ \E loading \in BOOLEAN :
          /\ isLoading = loading
          /\ error = IF loading THEN NotFound ELSE Null
    /\ asyncStorage \in
          {EmptyStorage,
           [tasks |-> Blob(<<FoldTask("t1", "A")>>),
            offline_actions |->
                Blob(<<OfflineAction("a", "DELETE", [id |-> "t2"], toISOString(1))>>)]}
    /\ docs = <<>>
    /\ clock = 1
    /\ steps = 0
    /\ last = NoCall
    /\ sync = SyncStart(TRUE, "u1")
    /\ inflight = NoCalls
    /\ reconciling = NoReconciles

\* filterTasks(searchQuery, sortBy, filterByStatus), as the dashboard calls it
CallFilterTasks ==
    \E searchQuery \in SearchQueries, sortBy \in SortKeys,
       filterByStatus \in StatusFilters :
        LET r == filterTasks(tasks, searchQuery, sortBy, filterByStatus)
        IN  /\ tasks' = r.tasks
            /\ last' = Call("filterTasks", Null,
                            [searchQuery |-> searchQuery, sortBy |-> sortBy,
                             filterByStatus |-> filterByStatus],
                            "resolved", Null, r.val, AllSucceed, {})
            /\ UNCHANGED <<isLoading, error, asyncStorage, docs, clock, steps,
                           sync, inflight, reconciling>>

NextFilter == CallFilterTasks

SpecFilter == InitFilter /\ [][NextFilter]_vars

----------------------------------------------------------------------------
(* SpecRace: two calls of taskService.createTask / taskService.updateTask   *)
(* made without awaiting one another.  A call runs from one await to the   *)
(* next in one step; between two steps of a call the other call may run.   *)
(* AsyncStorage does not fail; the NetInfo probes answer either way.       *)

\* The task stored before the two calls are made
RaceStored ==
    Task(DateNowString(0), "A", "d", FALSE, "not_started", toISOString(0),
         Undefined, toISOString(0), toISOString(0), "u1")

InitRace ==
    /\ tasks = <<>>
    /\ isLoading = FALSE
    /\ error = Null
    /\ \E d \in {Absent, Blob(<<RaceStored>>)} :
          asyncStorage = [tasks |-> d, offline_actions |-> Absent]
    /\ docs = <<>>
    /\ clock = 1
    /\ steps = 0
    /\ last = NoCall
    /\ sync = SyncStart(TRUE, "u1")
    /\ inflight = NoCalls
    /\ reconciling = NoReconciles

RaceUpdates == {[title |-> "B"], [status |-> "completed", completed |-> TRUE]}

\* Call p goes on to its next await with the locals c
Suspend(p, c) ==
    /\ inflight' = [inflight EXCEPT ![p] = c]
    /\ UNCHANGED <<tasks, isLoading, error, docs, clock, steps, last, sync,
                   reconciling>>

\* taskService.createTask is called: newTask is built and
\* storage.getTasks() is awaited
RaceCreateTask(p) ==
    /\ inflight[p].pc = "none"
    /\ \E title \in Titles :
          LET now == toISOString(clock)
              newTask == Task(DateNowString(clock), title, "d", FALSE,
                              "not_started", now, Undefined, now, now, "u1")
          IN  Suspend(p, [inflight[p] EXCEPT !.pc = "getTasks",
                                             !.op = "createTask",
                                             !.task = newTask])
    /\ UNCHANGED asyncStorage

\* taskService.updateTask is called: storage.getTasks() is awaited
RaceUpdateTask(p) ==
    /\ inflight[p].pc = "none"
    /\ \E taskId \in {DateNowString(0), DateNowString(1)}, updates \in RaceUpdates :
          Suspend(p, [inflight[p] EXCEPT !.pc = "getTasks",
                                         !.op = "updateTask",
                                         !.taskId = taskId,
                                         !.updates = updates])
    /\ UNCHANGED asyncStorage

\* storage.getTasks() resolves; the call changes the array it got and
\* awaits storage.saveTasks(tasks), or throws 'Task not found'
RaceGetTasks(p) ==
    /\ inflight[p].pc = "getTasks"
    /\ LET c == inflight[p]
           read == getTasks(asyncStorage, TRUE)
           index == findIndex(read, c.taskId)
           updatedTask == Spread(Spread(read[index + 1], c.updates),
                                 [updatedAt |-> toISOString(clock)])
       IN  IF c.op = "createTask"
           THEN Suspend(p, [c EXCEPT !.pc = "saveTasks", !.read = read,
                                     !.tasks = Append(read, c.task)])
           ELSE IF index = -1
           THEN Suspend(p, [c EXCEPT !.pc = "rejected", !.read = read])
           ELSE Suspend(p, [c EXCEPT !.pc = "saveTasks", !.read = read,
                                     !.task = updatedTask,
                                     !.tasks = [read EXCEPT ![index + 1] =
                                                    updatedTask]])
    /\ UNCHANGED asyncStorage

\* storage.saveTasks(tasks) resolves; syncService.checkConnectivity() is
\* awaited
RaceSaveTasks(p) ==
    /\ inflight[p].pc = "saveTasks"
    /\ asyncStorage' = saveTasks(asyncStorage, inflight[p].tasks, TRUE).st
    /\ Suspend(p, [inflight[p] EXCEPT !.pc = "checkConnectivity"])

\* The action the call queues: its id and, for an update, its timestamp
\* are read off the clock when it is built
RaceAction(c) ==
    IF c.op = "createTask"
    THEN OfflineAction(DateNowString(clock), "CREATE", c.task, c.task.createdAt)
    ELSE OfflineAction(DateNowString(clock), "UPDATE", c.task, toISOString(clock))

\* syncService.saveOfflineAction(action) is called: getOfflineActions()
\* is awaited
RaceQueue(c) == [c EXCEPT !.pc = "getActions", !.action = RaceAction(c)]

\* The call's own probe resolves: syncService.syncTasks(tasks) is called
\* when online, the action is queued when not
RaceCheckConnectivity(p) ==
    /\ inflight[p].pc = "checkConnectivity"
    /\ \E isOnline \in BOOLEAN :
          IF isOnline
          THEN Suspend(p, [inflight[p] EXCEPT !.pc = "syncProbe"])
          ELSE Suspend(p, RaceQueue(inflight[p]))
    /\ UNCHANGED asyncStorage

\* The probe of syncService.syncTasks resolves: the delay and
\* storage.saveTasks(tasks) are awaited when online; when not, syncTasks
\* throws and the caller queues the action
RaceSyncProbe(p) ==
    /\ inflight[p].pc = "syncProbe"
    /\ \E isOnline \in BOOLEAN :
          IF isOnline
          THEN Suspend(p, [inflight[p] EXCEPT !.pc = "syncSave"])
          ELSE Suspend(p, RaceQueue(inflight[p]))
    /\ UNCHANGED asyncStorage

\* storage.saveTasks(tasks) of syncService.syncTasks resolves, and the call
RaceSyncSave(p) ==
    /\ inflight[p].pc = "syncSave"
    /\ asyncStorage' = saveTasks(asyncStorage, inflight[p].tasks, TRUE).st
    /\ Suspend(p, [inflight[p] EXCEPT !.pc = "resolved"])

\* getOfflineActions() resolves; the action is pushed and setItem awaited
RaceGetActions(p) ==
    /\ inflight[p].pc = "getActions"
    /\ Suspend(p, [inflight[p] EXCEPT
                       !.pc = "setActions",
                       !.actions = Append(getOfflineActions(asyncStorage, TRUE),
                                          inflight[p].action)])
    /\ UNCHANGED asyncStorage

\* setItem('@offline_actions') resolves, and the call
RaceSetActions(p) ==
    /\ inflight[p].pc = "setActions"
    /\ asyncStorage' =
           [asyncStorage EXCEPT !.offline_actions = Blob(inflight[p].actions)]
    /\ Suspend(p, [inflight[p] EXCEPT !.pc = "resolved"])

\* Date.now() advances while the calls run
RaceTick ==
    /\ clock < MaxClock
    /\ clock' = clock + 1
    /\ UNCHANGED <<tasks, isLoading, error, asyncStorage, docs, steps, last, sync,
                   inflight, reconciling>>

NextRace ==
    \/ \E p \in Callers : RaceCreateTask(p)
    \/ \E p \in Callers : RaceUpdateTask(p)
    \/ \E p \in Callers : RaceGetTasks(p)
    \/ \E p \in Callers : RaceSaveTasks(p)
    \/ \E p \in Callers : RaceCheckConnectivity(p)
    \/ \E p \in Callers : RaceSyncProbe(p)
    \/ \E p \in Callers : RaceSyncSave(p)
    \/ \E p \in Callers : RaceGetActions(p)
    \/ \E p \in Callers : RaceSetActions(p)
    \/ RaceTick

SpecRace == InitRace /\ [][NextRace]_vars

----------------------------------------------------------------------------
(* SpecReplay: calls of useTaskStore.syncTasks (made by the connectivity   *)
(* listener, by the dashboard effect and by pull-to-refresh, none of which *)
(* waits for a reconcile that runs) and a call of useTaskStore.createTask  *)
(* that falls back to taskService.createTask, each running from one await *)
(* to the next.  Of the AsyncStorage calls only removeItem may fail.       *)

\* The action queued when RaceStored was created offline
ReplayQueued ==
    OfflineAction(DateNowString(0), "CREATE", RaceStored, toISOString(0))

\* Nothing was created yet, or RaceStored was created offline: the store,
\* the durable snapshot and the log hold it
InitReplay ==
    /\ \E queued \in BOOLEAN :
          /\ tasks = IF queued THEN <<RaceStored>> ELSE <<>>
          /\ asyncStorage =
                IF queued
                THEN [tasks |-> Blob(<<RaceStored>>),
                      offline_actions |-> Blob(<<ReplayQueued>>)]
                ELSE EmptyStorage
    /\ isLoading = FALSE
    /\ error = Null
    /\ docs = <<>>
    /\ clock = 1
    /\ steps = 0
    /\ last = NoCall
    /\ sync = SyncStart(TRUE, "u1")
    /\ inflight = NoCalls
    /\ reconciling = NoReconciles

\* Reconcile r goes on to its next await with the locals c
Continue(r, c) ==
    /\ reconciling' = [reconciling EXCEPT ![r] = c]
    /\ UNCHANGED <<docs, clock, steps, last, sync, inflight>>

\* useTaskStore.syncTasks is called: set({ isLoading: true, error: null }),
\* syncService.checkConnectivity() is awaited
ReplaySyncTasks(r) ==
    /\ reconciling[r].pc = "none"
    /\ isLoading' = TRUE
    /\ error' = Null
    /\ Continue(r, [reconciling[r] EXCEPT !.pc = "checkConnectivity"])
    /\ UNCHANGED <<tasks, asyncStorage>>

\* The probe resolves: offline, set({ isLoading: false }) and the call
\* resolves; online, get().tasks is read and syncService.syncTasks(tasks)
\* awaits its own probe
ReplayCheckConnectivity(r) ==
    /\ reconciling[r].pc = "checkConnectivity"
    /\ \E isOnline \in BOOLEAN :
          IF isOnline
          THEN /\ Continue(r, [reconciling[r] EXCEPT !.pc = "syncProbe",
                                                      !.tasks = tasks])
               /\ UNCHANGED isLoading
          ELSE /\ Continue(r, [reconciling[r] EXCEPT !.pc = "resolved"])
               /\ isLoading' = FALSE
    /\ UNCHANGED <<tasks, error, asyncStorage>>

\* The probe of syncService.syncTasks resolves: offline, it throws and the
\* catch of useTaskStore.syncTasks sets the error; online, the delay and
\* storage.saveTasks(tasks) are awaited
ReplaySyncProbe(r) ==
    /\ reconciling[r].pc = "syncProbe"
    /\ \E isOnline \in BOOLEAN :
          IF isOnline
          THEN /\ Continue(r, [reconciling[r] EXCEPT !.pc = "syncSave"])
               /\ UNCHANGED <<isLoading, error>>
          ELSE /\ Continue(r, [reconciling[r] EXCEPT !.pc = "resolved"])
               /\ isLoading' = FALSE
               /\ error' = NoConnection
    /\ UNCHANGED <<tasks, asyncStorage>>

\* storage.saveTasks(tasks) resolves; processOfflineActions awaits
\* getOfflineActions()
ReplaySyncSave(r) ==
    /\ reconciling[r].pc = "syncSave"
    /\ asyncStorage' = saveTasks(asyncStorage, reconciling[r].tasks, TRUE).st
    /\ Continue(r, [reconciling[r] EXCEPT !.pc = "getActions"])
    /\ UNCHANGED <<tasks, isLoading, error>>

\* getOfflineActions() resolves; the actions are folded and
\* clearOfflineActions() is awaited
ReplayGetActions(r) ==
    /\ reconciling[r].pc = "getActions"
    /\ LET actions == getOfflineActions(asyncStorage, TRUE)
       IN  Continue(r, [reconciling[r] EXCEPT
                           !.pc = "clearActions",
                           !.actions = actions,
                           !.processed = processLoop(reconciling[r].tasks,
                                                     actions, 1)])
    /\ UNCHANGED <<tasks, isLoading, error, asyncStorage>>

\* removeItem resolves or throws (swallowed); processOfflineActions returns
\* and set({ tasks: processedTasks, isLoading: false })
ReplayClearActions(r) ==
    /\ reconciling[r].pc = "clearActions"
    /\ \E ok \in BOOLEAN :
          /\ asyncStorage' = clearOfflineActions(asyncStorage, ok)
          /\ Continue(r, [reconciling[r] EXCEPT
                              !.pc = "resolved",
                              !.removed =
                                  IF ok THEN getOfflineActions(asyncStorage, TRUE)
                                  ELSE <<>>])
    /\ tasks' = reconciling[r].processed
    /\ isLoading' = FALSE
    /\ UNCHANGED error

\* taskService.createTask resolved: useTaskStore.createTask appends the
\* task it returned to the store's tasks
ReplayAdopt(p) ==
    /\ inflight[p].pc = "resolved"
    /\ tasks' = Append(tasks, inflight[p].task)
    /\ inflight' = [inflight EXCEPT ![p].pc = "adopted"]
    /\ UNCHANGED <<isLoading, error, asyncStorage, docs, clock, steps, last, sync,
                   reconciling>>

NextReplay ==
    \/ \E r \in Reconcilers : ReplaySyncTasks(r)
    \/ \E r \in Reconcilers : ReplayCheckConnectivity(r)
    \/ \E r \in Reconcilers : ReplaySyncProbe(r)
    \/ \E r \in Reconcilers : ReplaySyncSave(r)
    \/ \E r \in Reconcilers : ReplayGetActions(r)
    \/ \E r \in Reconcilers : ReplayClearActions(r)
    \/ RaceCreateTask(1)
    \/ RaceGetTasks(1)
    \/ RaceSaveTasks(1)
    \/ RaceCheckConnectivity(1)
    \/ RaceSyncProbe(1)
    \/ RaceSyncSave(1)
    \/ RaceGetActions(1)
    \/ RaceSetActions(1)
    \/ ReplayAdopt(1)

SpecReplay == InitReplay /\ [][NextReplay]_vars

----------------------------------------------------------------------------
(* What the claims read off a state *)

\* The Offline Action Log and the durable snapshot, now and before the
\* call that ran last
Log == getOfflineActions(asyncStorage, TRUE)
Log0 == last.log0.data
Stored == getTasks(asyncStorage, TRUE)
Stored0 == last.stored0.data

AllSucceeded == \A c \in CallSites : last.e[c]

Mutations ==
    {"createTask", "updateTask", "deleteTask", "toggleTaskComplete",
     "updateTaskStatus"}

\* The kind of Offline Action that corresponds to an operation
KindOf(op) ==
    CASE op = "createTask" -> "CREATE"
      [] op = "deleteTask" -> "DELETE"
      [] OTHER -> "UPDATE"

\* The log is the log before the call followed by one action of the kind
\* of the call
OneActionAppended ==
    /\ Len(Log) = Len(Log0) + 1
    /\ SubSeq(Log, 1, Len(Log0)) = Log0
    /\ Log[Len(Log)].type = KindOf(last.op)

----------------------------------------------------------------------------
(* C1 *)

\* The fold of one action, stated from the contract
C1_Apply(s, a) ==
    CASE a.type = "CREATE" -> s \o <<a.payload>>
      [] a.type = "UPDATE" ->
            [i \in 1..Len(s) |->
                IF s[i].id = a.payload.id /\ \A j \in 1..(i - 1) : s[j].id # a.payload.id
                THEN a.payload ELSE s[i]]
      [] a.type = "DELETE" ->
            SelectSeq(s, LAMBDA t : t.id # a.payload.id)

\* The left fold of the log l over s: the last action is applied last
RECURSIVE C1_Fold(_, _)
C1_Fold(s, l) ==
    IF l = <<>> THEN s
    ELSE C1_Apply(C1_Fold(s, SubSeq(l, 1, Len(l) - 1)), l[Len(l)])

\* C1: processOfflineActions(tasks) returns the left fold of the Offline
\* Action Log, in append order, over tasks: CREATE appends the payload at
\* the end, UPDATE replaces in place the (first) task with the payload's id
\* and is dropped when there is none, DELETE removes the tasks with the
\* payload's id.  Stated for a call whose read of the log succeeds.
C1_FoldOfLog ==
    (last.op = "processOfflineActions" /\ last.e.getActions)
        => last.val = C1_Fold(last.arg, Log0)

\* A call that folded a log holding all three kinds over a non-empty snapshot
C1_Witness ==
    /\ last.op = "processOfflineActions"
    /\ last.e.getActions
    /\ last.arg # <<>>
    /\ {Log0[i].type : i \in 1..Len(Log0)} = {"CREATE", "UPDATE", "DELETE"}
    /\ last.val # last.arg

----------------------------------------------------------------------------
(* C2 *)

\* C2: after a reconcile (useTaskStore.syncTasks while online) in which
\* every step succeeded, started from in-memory snapshot S and log L, the
\* in-memory snapshot is the fold of L over S and the log is empty.
C2_ReconcileFoldsAndClears ==
    (last.op = "syncTasks" /\ last.e.checkConnectivity /\ AllSucceeded
        /\ error = Null)
        => /\ tasks = C1_Fold(last.tasks0, Log0)
           /\ Log = <<>>
           /\ ~asyncStorage.offline_actions.set

\* The scenario S = [], L = [CREATE t1]: the reconcile yields [t1]
C2_Witness ==
    /\ last.op = "syncTasks"
    /\ last.e.checkConnectivity /\ AllSucceeded /\ error = Null
    /\ last.tasks0 = <<>>
    /\ Len(Log0) = 1 /\ Log0[1].type = "CREATE"
    /\ tasks = <<Log0[1].payload>>
    /\ Log = <<>>

----------------------------------------------------------------------------
(* C3 *)

\* C3: after a reconcile in which every step succeeded, the snapshot held by
\* the Durable Task Store is the folded collection the store adopted.
C3_PersistsFolded ==
    (last.op = "syncTasks" /\ last.e.checkConnectivity /\ AllSucceeded
        /\ error = Null)
        => Stored = JsonRoundTrip(tasks)

----------------------------------------------------------------------------
(* C4 *)

\* The push/persist step of the reconcile (syncService.syncTasks) resolved
C4_PushSucceeded == last.e.syncProbe /\ last.e.syncSave

\* C4 as claimed: whenever a reconcile is attempted while online, the log is
\* empty when it ends, whichever step failed.
C4_ClearedUnconditionally ==
    (last.op = "syncTasks" /\ last.e.checkConnectivity) => Log = <<>>

\* C4 as amended: a reconcile attempted while online leaves the log empty
\* when its push/persist step and the clear both succeed; when the
\* push/persist step fails (the second probe reports offline, or saveTasks
\* throws) or the clear throws, the log is exactly what it was.
C4_ClearedOnlyOnSuccess ==
    (last.op = "syncTasks" /\ last.e.checkConnectivity)
        => IF C4_PushSucceeded /\ last.e.clearActions
           THEN ~asyncStorage.offline_actions.set
           ELSE asyncStorage.offline_actions = last.log0

\* A reconcile whose push/persist step failed, with actions pending
C4_Witness ==
    /\ last.op = "syncTasks"
    /\ last.e.checkConnectivity
    /\ ~C4_PushSucceeded
    /\ error # Null
    /\ Log0 # <<>>
    /\ Log = Log0

----------------------------------------------------------------------------
(* C5 *)

\* C5: when checkConnectivity reports offline and every storage call
\* succeeds, a call of taskService.createTask, or of updateTask, deleteTask,
\* toggleTaskComplete or updateTaskStatus on a task of the durable snapshot,
\* resolves and leaves the log exactly one action longer.
C5_OfflineQueuesOne ==
    (/\ last.op \in Mutations
     /\ "checkConnectivity" \in last.calls /\ ~last.e.checkConnectivity
     /\ \A c \in StorageCalls : last.e[c]
     /\ (last.op = "createTask" \/ last.id \in IdsOf(Stored0)))
        => /\ last.outcome = "resolved"
           /\ OneActionAppended

\* An offline toggle of a stored task, with an action already pending
C5_Witness ==
    /\ last.op = "toggleTaskComplete"
    /\ ~last.e.checkConnectivity
    /\ \A c \in StorageCalls : last.e[c]
    /\ last.id \in IdsOf(Stored0)
    /\ Log0 # <<>>
    /\ last.outcome = "resolved"
    /\ Len(Log) = Len(Log0) + 1

----------------------------------------------------------------------------
(* C6 *)

----------------------------------------------------------------------------
(* C7 *)

\* The sync attempt made after the local write threw, although
\* checkConnectivity had reported online
C7_SyncFailed ==
    /\ last.op \in {"createTask", "updateTask", "deleteTask"}
    /\ "syncProbe" \in last.calls
    /\ ~(last.e.syncProbe /\ last.e.syncSave)

\* The local snapshot holds the mutation of the call that ran last
C7_KeepsMutation ==
    CASE last.op = "createTask" ->
            \E i \in 1..Len(Stored) :
                /\ Stored[i].id = DateNowString(last.clock0)
                /\ Stored[i].title = last.arg.title
                /\ Stored[i].status = "not_started"
      [] last.op = "updateTask" ->
            \E i \in 1..Len(Stored) :
                /\ Stored[i].id = last.id
                /\ \A f \in DOMAIN last.arg : Stored[i][f] = last.arg[f]
                /\ Stored[i].updatedAt = toISOString(last.clock0)
      [] last.op = "deleteTask" -> last.id \notin IdsOf(Stored)

\* The call resolved with its normal result: the created task, the updated
\* task, nothing
C7_NormalResult ==
    /\ last.outcome = "resolved"
    /\ CASE last.op = "createTask" -> last.val = Stored[Len(Stored)]
         [] last.op = "updateTask" ->
                \E i \in 1..Len(Stored) : Stored[i] = last.val
         [] last.op = "deleteTask" -> last.val = Null

----------------------------------------------------------------------------
(* C8 *)

\* C8: if storage.saveTasks throws during a mutating operation of
\* useTaskStore that took the local fallback, the call rejects, the durable
\* snapshot and the log are unchanged, no sync is attempted and the
\* in-memory snapshot is unchanged.
C8_WriteFailureAborts ==
    (/\ last.op \in Mutations
     /\ "saveTasks" \in last.calls /\ ~last.e.saveTasks)
        => /\ last.outcome = "rejected"
           /\ asyncStorage.tasks = last.stored0
           /\ asyncStorage.offline_actions = last.log0
           /\ "syncProbe" \notin last.calls
           /\ tasks = last.tasks0

----------------------------------------------------------------------------
(* C9 *)

\* C9: taskService.updateTask, deleteTask and toggleTaskComplete (and
\* updateTaskStatus, which is updateTask) called with an identifier that no
\* task of the durable snapshot has reject with 'Task not found' before any
\* persistence attempt: saveTasks is not called, no sync is attempted, and
\* the durable snapshot and the log are unchanged.
C9_UnknownIdRejected ==
    (/\ last.op \in Mutations \ {"createTask"}
     /\ last.id \notin IdsOf(Stored0))
        => /\ last.outcome = "rejected"
           /\ last.err = NotFound
           /\ last.calls \cap {"saveTasks", "syncSave", "checkConnectivity",
                               "syncProbe", "setActions"} = {}
           /\ asyncStorage.tasks = last.stored0
           /\ asyncStorage.offline_actions = last.log0

\* A delete of an unknown identifier on a non-empty durable snapshot
C9_Witness ==
    /\ last.op = "deleteTask"
    /\ Stored0 # <<>>
    /\ last.id \notin IdsOf(Stored0)
    /\ last.err = NotFound

----------------------------------------------------------------------------
(* C10 *)

\* C10: whenever useTaskStore.updateTask, deleteTask, toggleTaskComplete or
\* updateTaskStatus is called for an identifier that neither the backend
\* nor the local service knows, the call rejects and the store's error is
\* set to the message (read with every AsyncStorage call succeeding).
C10_NotFoundSurfaced ==
    (/\ last.op \in Mutations \ {"createTask"}
     /\ \A c \in StorageCalls : last.e[c]
     /\ last.id \notin IdsOf(Stored0)
     /\ ~HasDoc(last.docs0, last.id))
        => /\ last.outcome = "rejected"
           /\ error = NotFound

----------------------------------------------------------------------------
(* C11 *)

\* C11: in every reachable state, every task of the in-memory snapshot of
\* useTaskStore has completed exactly when its status is 'completed'.
C11_CompletedTracksStatus ==
    \A i \in 1..Len(tasks) :
        tasks[i].completed = (tasks[i].status = "completed")

----------------------------------------------------------------------------
(* C12 *)

\* The task a createTask call with the arguments of the last call builds
C12_Created(t) ==
    /\ t.title = last.arg.title
    /\ t.description = last.arg.description
    /\ t.userId = last.arg.userId
    /\ t.dueDate = last.arg.dueDate
    /\ t.completed = FALSE
    /\ t.status = "not_started"
    /\ t.assignedDate = t.createdAt
    /\ t.createdAt = t.updatedAt

\* C12: for all inputs, taskService.createTask returns a task that echoes
\* title, description, userId and dueDate, has completed false, status
\* 'not_started' and assignedDate = createdAt = updatedAt, and the snapshot
\* it persists is the previous durable snapshot with that task appended at
\* the end.  Stated for a call whose read and write of the snapshot succeed.
C12_CreateAppends ==
    (last.op = "createTask" /\ last.e.getTasks /\ last.e.saveTasks)
        => /\ Len(Stored) = Len(Stored0) + 1
           /\ SubSeq(Stored, 1, Len(Stored0)) = Stored0
           /\ C12_Created(Stored[Len(Stored)])
           /\ last.outcome = "resolved" => last.val = Stored[Len(Stored)]

\* A create with a due date on a non-empty snapshot that resolved
C12_Witness ==
    /\ last.op = "createTask"
    /\ last.outcome = "resolved"
    /\ Stored0 # <<>>
    /\ last.arg.dueDate # Undefined
    /\ last.val.dueDate = last.arg.dueDate
    /\ Len(Stored) = Len(Stored0) + 1

----------------------------------------------------------------------------
(* C13 *)

\* C13: the identifier taskService.createTask assigns differs from the
\* identifier of every task already in the snapshot, also when the earlier
\* task was created at the same clock reading.
C13_FreshIdentifier ==
    (last.op = "createTask" /\ last.outcome = "resolved")
        => last.val.id \notin IdsOf(Stored0)

----------------------------------------------------------------------------
(* C14 *)

\* s without its k-th element
C14_Without(s, k) == SubSeq(s, 1, k - 1) \o SubSeq(s, k + 1, Len(s))

\* C14: taskService.deleteTask(id) on a snapshot containing id persists
\* the snapshot from which exactly one task, one with that id, has been
\* removed, the others unchanged and in their order.  Stated for a call
\* whose read and write of the snapshot succeed.
C14_DeleteRemovesOne ==
    (/\ last.op = "deleteTask"
     /\ last.e.getTasks /\ last.e.saveTasks
     /\ last.id \in IdsOf(Stored0))
        => \E k \in 1..Len(Stored0) :
              /\ Stored0[k].id = last.id
              /\ Stored = C14_Without(Stored0, k)

----------------------------------------------------------------------------
(* C15 *)

\* The task toggleTaskComplete(id) works on: the first with the id
C15_TaskOf(ts, id) == ts[findIndex(ts, id) + 1]

\* A step that is a call of toggleTaskComplete that resolved
C15_Toggled ==
    /\ steps' = steps + 1
    /\ last'.op = "toggleTaskComplete"
    /\ last'.outcome = "resolved"

\* C15: taskService.toggleTaskComplete is an involution on completed: each
\* toggle that resolves returns and persists the task with completed
\* negated and with status 'completed' exactly when completed is true, and
\* the second of two successive toggles of a task returns completed to the
\* value it had before the first.
C15_ToggleInvolution ==
    [][C15_Toggled =>
        LET after == C15_TaskOf(getTasks(asyncStorage', TRUE), last'.id)
            before == C15_TaskOf(last'.stored0.data, last'.id)
        IN  /\ last'.val = after
            /\ after.completed = ~before.completed
            /\ (after.status = "completed") = after.completed
            /\ (/\ last.op = "toggleTaskComplete"
                /\ last.outcome = "resolved"
                /\ last.id = last'.id)
                  => after.completed
                        = C15_TaskOf(last.stored0.data, last.id).completed]_vars

\* Two toggles of one task, queued while offline: completed went to true
\* and back to false
C15_Witness ==
    /\ last.op = "toggleTaskComplete"
    /\ last.outcome = "resolved"
    /\ Len(Log) = 2
    /\ Log[1].type = "UPDATE" /\ Log[1].payload.id = last.id
    /\ Log[1].payload.completed /\ Log[1].payload.status = "completed"
    /\ Log[2].type = "UPDATE" /\ Log[2].payload.id = last.id
    /\ ~Log[2].payload.completed /\ Log[2].payload.status = "not_started"
    /\ ~C15_TaskOf(Stored, last.id).completed

----------------------------------------------------------------------------
(* C16 *)

\* The log is [CREATE(t), UPDATE(t with another title), DELETE(t)] for one
\* id that no task of the snapshot s has
C16_CreateUpdateDelete(s, l) ==
    /\ Len(l) = 3
    /\ l[1].type = "CREATE" /\ l[2].type = "UPDATE" /\ l[3].type = "DELETE"
    /\ l[2].payload.id = l[1].payload.id
    /\ l[3].payload.id = l[1].payload.id
    /\ l[2].payload.title # l[1].payload.title
    /\ l[1].payload.id \notin IdsOf(s)

\* C16: for every snapshot S with no task of id t1, processOfflineActions(S)
\* with the log [CREATE(t1), UPDATE(t1 with a changed title), DELETE(t1)]
\* returns exactly S; against the empty snapshot it returns the empty list.
C16_ReplayNetZero ==
    (/\ last.op = "processOfflineActions"
     /\ last.e.getActions
     /\ C16_CreateUpdateDelete(last.arg, Log0))
        => last.val = last.arg

\* The create-update-delete log replayed over a snapshot holding another task
C16_Witness ==
    /\ last.op = "processOfflineActions"
    /\ last.e.getActions
    /\ C16_CreateUpdateDelete(last.arg, Log0)
    /\ last.arg # <<>>
    /\ last.val = last.arg

----------------------------------------------------------------------------
(* C17 *)

----------------------------------------------------------------------------
(* C18 *)

\* No callback is scheduled: only the user can make the application act
C18_Idle ==
    /\ ~sync.check
    /\ sync.event = "none"
    /\ ~sync.effect
    /\ sync.reconciles = 0

\* C18: queued actions are processed automatically when the connection is
\* restored: with a user signed in, once the listener has received an
\* online transition and everything the application scheduled has run, the
\* Offline Action Log is empty, without any manual refresh.
C18_AutoSyncOnReconnect ==
    (/\ sync.user # Null
     /\ sync.net
     /\ sync.received = "online"
     /\ C18_Idle)
        => Log = <<>>

----------------------------------------------------------------------------
(* C19 *)

\* The clock reading a timestamp was taken at, whichever form it has
C19_Time(v) ==
    CHOOSE c \in 0..(MaxClock + 1) :
        v \in {toISOString(c), DateObj(c), Timestamp(c)}

\* The readings of the versions of the task id that a reconcile started
\* with: those of the in-memory snapshot and the queued UPDATE payloads
C19_Versions(id) ==
    {C19_Time(last.tasks0[i].updatedAt) :
        i \in {j \in 1..Len(last.tasks0) : last.tasks0[j].id = id}}
    \cup {C19_Time(Log0[i].payload.updatedAt) :
            i \in {j \in 1..Len(Log0) :
                      Log0[j].type = "UPDATE" /\ Log0[j].payload.id = id}}

\* C19: conflict resolution is last-write-wins by timestamp: after a
\* reconcile, for every task id that has a version in the snapshot and one
\* or more queued UPDATE payloads, the task kept in the resulting snapshot
\* (the one a lookup by id finds) is the version with the latest updatedAt.
C19_LastWriteWins ==
    (/\ last.op = "syncTasks"
     /\ last.e.checkConnectivity /\ last.e.syncProbe
     /\ error = Null)
        => \A id \in IdsOf(last.tasks0) :
              (\E j \in 1..Len(Log0) :
                    Log0[j].type = "UPDATE" /\ Log0[j].payload.id = id)
                 => /\ id \in IdsOf(tasks)
                    /\ \A c \in C19_Versions(id) :
                          C19_Time(tasks[findIndex(tasks, id) + 1].updatedAt) >= c

\* C20: taskService's mutating calls are not mutually exclusive.  Two calls
\* of createTask / updateTask that run concurrently can both get the same
\* durable snapshot from storage.getTasks() and both resolve; whenever they
\* do, and their mutations differ, the durable snapshot left when both have
\* resolved holds the mutation of exactly one of them: the other is lost.
C20_Reflected(p) ==
    \E i \in 1..Len(Stored) : Stored[i] = inflight[p].task

C20_SameSnapshot ==
    /\ \A p \in Callers : inflight[p].pc = "resolved"
    /\ inflight[1].read = inflight[2].read
    /\ inflight[1].task # inflight[2].task

C20_LostUpdate ==
    C20_SameSnapshot => (C20_Reflected(1) # C20_Reflected(2))

\* C20 witness: two createTask calls got the same snapshot, both resolved,
\* and the durable snapshot is one task longer than the one they got
C20_Witness ==
    /\ C20_SameSnapshot
    /\ \A p \in Callers : inflight[p].op = "createTask"
    /\ Len(Stored) = Len(inflight[1].read) + 1
    /\ C20_Reflected(1) # C20_Reflected(2)

----------------------------------------------------------------------------
(* C21 *)

\* C21: the Offline Action Log is an append-only FIFO without
\* deduplication.  getOfflineActions returns the stored sequence ([] when
\* nothing is stored), and when saveOfflineAction(a) resolves the log is the
\* log before the call followed by a.
C21_AppendOnlyFifo ==
    /\ (last.op = "getOfflineActions") => last.val = Log0
    /\ (last.op = "saveOfflineAction" /\ last.outcome = "resolved")
          => Log = Append(Log0, last.arg)

----------------------------------------------------------------------------
(* C22 *)

\* The properties of a Task
C22_TaskFields ==
    {"id", "title", "description", "completed", "status", "assignedDate",
     "dueDate", "createdAt", "updatedAt", "userId"}

\* The payload of a has the shape of its kind
C22_Shaped(a) ==
    IF a.type = "DELETE" THEN DOMAIN a.payload = {"id"}
    ELSE a.type \in {"CREATE", "UPDATE"} /\ DOMAIN a.payload = C22_TaskFields

\* The last call of taskService wrote an action to the log
C22_Queued ==
    /\ last.op \in Mutations
    /\ "setActions" \in last.calls
    /\ last.e.setActions

\* C22: every action of the Offline Action Log has the payload of its kind,
\* a full Task for CREATE and UPDATE and the identifier alone for DELETE;
\* and the action a taskService call queues is of the kind of the call and
\* carries the task the call returned, which is in the durable snapshot
\* (createTask, updateTask, toggleTaskComplete, updateTaskStatus), or the
\* identifier the call was given (deleteTask).
C22_PayloadMatchesKind ==
    /\ \A i \in 1..Len(Log) : C22_Shaped(Log[i])
    /\ C22_Queued =>
          LET a == Log[Len(Log)]
          IN  /\ last.outcome = "resolved"
              /\ a.type = KindOf(last.op)
              /\ IF last.op = "deleteTask"
                 THEN a.payload = [id |-> last.id]
                 ELSE /\ a.payload = last.val
                      /\ \E i \in 1..Len(Stored) : Stored[i] = a.payload

\* A deleteTask queued its action behind the action of an earlier call
C22_Witness ==
    /\ C22_Queued
    /\ last.op = "deleteTask"
    /\ Len(Log) = 2
    /\ Log[1].type \in {"CREATE", "UPDATE"}
    /\ Log[2].payload = [id |-> last.id]

----------------------------------------------------------------------------
(* C23 *)

\* storage.getTasks never rejects, returns [] when nothing is stored or the
\* read fails and what is stored otherwise, and writes nothing
C23_Read ==
    (last.op = "storage.getTasks")
        => /\ last.outcome = "resolved"
           /\ last.val = IF last.e.getTasks /\ last.stored0.set
                         THEN Stored0 ELSE <<>>
           /\ asyncStorage.tasks = last.stored0

\* A failed storage.saveTasks rejects and leaves what was stored
C23_FailedWrite ==
    (last.op = "storage.saveTasks" /\ ~last.e.saveTasks)
        => /\ last.outcome = "rejected"
           /\ asyncStorage.tasks = last.stored0

\* No createdAt or updatedAt of ts is a Date object
C23_Strings(ts) ==
    \A i \in 1..Len(ts) : JsonTask(ts[i]) = ts[i]

\* C23 as stated: what storage.getTasks returns is the array handed to the
\* last successful storage.saveTasks (which replaced the whole snapshot), []
\* when nothing is stored or the read fails; a failed write rejects and
\* leaves the stored snapshot.
C23_ReturnsWritten ==
    /\ C23_Read
    /\ C23_FailedWrite
    /\ (last.op = "storage.saveTasks" /\ last.e.saveTasks)
          => /\ last.outcome = "resolved"
             /\ asyncStorage.tasks.set
             /\ Stored = last.arg

\* C23 amended: a successful storage.saveTasks replaces the whole snapshot
\* by the JSON image of the array it was handed, in which a Date is its ISO
\* string, so that storage.getTasks returns the array written exactly when
\* its timestamps are strings; the rest as stated.
C23_ReturnsJsonImage ==
    /\ C23_Read
    /\ C23_FailedWrite
    /\ (last.op = "storage.saveTasks" /\ last.e.saveTasks)
          => /\ last.outcome = "resolved"
             /\ asyncStorage.tasks.set
             /\ Stored = JsonRoundTrip(last.arg)
             /\ (Stored = last.arg) <=> C23_Strings(last.arg)

\* A write failed over a snapshot that an earlier write left, and differs
\* from it
C23_Witness ==
    /\ last.op = "storage.saveTasks"
    /\ ~last.e.saveTasks
    /\ last.stored0.set
    /\ Stored0 # <<>>
    /\ last.arg # Stored0
    /\ Stored = Stored0

----------------------------------------------------------------------------
(* C24 *)

\* The listener of subscribeToConnectivity received the pending event
C24_Received ==
    /\ sync.event # "none"
    /\ sync'.event = "none"
    /\ sync'.received = sync.event

\* The initial check of subscribeToConnectivity ran
C24_Checked == sync.check /\ ~sync'.check

\* C24: every event the listener receives, reporting connected, not
\* connected or unknown, sets useSyncStore.isOnline to the event's value,
\* unknown counting as not connected; the initial check of a subscription
\* sets isOnline to what the probe reports, and once it ran no check runs
\* again until the application subscribes anew.
C24_Step ==
    /\ C24_Received => (sync'.isOnline <=> (sync.event = "online"))
    /\ C24_Checked => (sync'.isOnline <=> sync.net)
    /\ (~sync.check /\ sync'.check) => sync' = SyncStart(sync.net, sync.user)

C24_EveryTransitionDelivered == [][C24_Step]_vars

\* After the initial check found the device online, the listener received
\* an event of unknown connectivity and the store shows offline
C24_Witness ==
    /\ ~sync.check
    /\ sync.event = "none"
    /\ sync.received = "unknown"
    /\ ~sync.net
    /\ ~sync.isOnline

----------------------------------------------------------------------------
(* C25 *)

\* How many times t occurs in ts
CountIn(ts, t) == Cardinality({i \in 1..Len(ts) : ts[i] = t})

\* t satisfies the search and the status filter of the call; a blank query
\* and an absent status filter restrict nothing
C25_Matches(t, arg) ==
    /\ \/ trim(arg.searchQuery) = ""
       \/ includes(toLowerCase(t.title), toLowerCase(arg.searchQuery))
       \/ includes(toLowerCase(t.description), toLowerCase(arg.searchQuery))
    /\ \/ arg.filterByStatus = Undefined
       \/ t.status = arg.filterByStatus

\* C25: filterTasks returns exactly the tasks of the snapshot that satisfy
\* both the search (title or description contains the query, whatever the
\* case) and the status filter, each as often as the snapshot holds it; a
\* blank query or an absent status filter restricts nothing.
C25_BothPredicates ==
    (last.op = "filterTasks")
        => \A t \in FilterTasks :
              CountIn(last.val, t) =
                  IF C25_Matches(t, last.arg) THEN CountIn(last.tasks0, t) ELSE 0

\* A call with a search and a status filter on a snapshot that holds a task
\* matching both, one matching the search alone and one the status alone
C25_Witness ==
    /\ last.op = "filterTasks"
    /\ trim(last.arg.searchQuery) # ""
    /\ last.arg.filterByStatus # Undefined
    /\ Len(last.val) = 1
    /\ \E i, j \in 1..Len(last.tasks0) :
          /\ C25_Matches(last.tasks0[i], [last.arg EXCEPT !.filterByStatus = Undefined])
          /\ ~C25_Matches(last.tasks0[i], last.arg)
          /\ C25_Matches(last.tasks0[j], [last.arg EXCEPT !.searchQuery = ""])
          /\ ~C25_Matches(last.tasks0[j], last.arg)

----------------------------------------------------------------------------
(* C26 *)

\* a may precede b in a list ordered by sortBy
C26_InOrder(a, b, sortBy) ==
    CASE sortBy = "dueDate" ->
            /\ Missing(a.dueDate) => Missing(b.dueDate)
            /\ (~Missing(a.dueDate) /\ ~Missing(b.dueDate))
                  => getTime(a.dueDate) <= getTime(b.dueDate)
      [] sortBy = "assignedDate" ->
            getTime(OrZero(a.assignedDate)) <= getTime(OrZero(b.assignedDate))
      [] sortBy = "title" -> localeCompare(a.title, b.title) <= 0

\* C26: the list filterTasks returns is a permutation of the matching tasks
\* of the snapshot, ordered by the chosen key: by due date ascending with
\* the tasks lacking one last, by assigned date ascending (a task lacking
\* one counts as the epoch), or by title ascending in the order of
\* localeCompare.
C26_OrderedPermutation ==
    (last.op = "filterTasks")
        => LET matching == SelectSeq(last.tasks0,
                               LAMBDA t : C25_Matches(t, last.arg))
           IN  /\ Len(last.val) = Len(matching)
               /\ \A i \in 1..Len(matching) :
                     CountIn(last.val, matching[i]) = CountIn(matching, matching[i])
               /\ \A i, j \in 1..Len(last.val) :
                     i < j => C26_InOrder(last.val[i], last.val[j], last.arg.sortBy)

\* A sort by due date that moved a task without a due date behind the
\* tasks that have one, and put those in order
C26_Witness ==
    /\ last.op = "filterTasks"
    /\ last.arg.sortBy = "dueDate"
    /\ Len(last.val) = 3
    /\ Missing(last.tasks0[1].dueDate)
    /\ getTime(last.tasks0[2].dueDate) > getTime(last.tasks0[3].dueDate)
    /\ ~Missing(last.tasks0[3].dueDate)
    /\ last.val = <<last.tasks0[3], last.tasks0[2], last.tasks0[1]>>

----------------------------------------------------------------------------
(* C27 *)

\* C27: a call of filterTasks leaves the store's tasks (and their order),
\* isLoading, error and AsyncStorage as they were, and a call with the
\* arguments of the call before it, on the same snapshot, returns the same
\* list.
C27_Step ==
    (last'.op = "filterTasks")
        => /\ UNCHANGED <<tasks, isLoading, error, asyncStorage>>
           /\ (last.op = "filterTasks" /\ last.arg = last'.arg)
                 => last'.val = last.val

C27_PureRead == [][C27_Step]_vars

\* A call that returned the snapshot in another order and left the store's
\* tasks in theirs
C27_Witness ==
    /\ last.op = "filterTasks"
    /\ Len(last.val) = Len(tasks)
    /\ Len(tasks) = MaxFilterTasks
    /\ last.val # tasks
    /\ tasks = last.tasks0
    /\ error # Null
    /\ isLoading
    /\ Log # <<>>
    /\ Stored # <<>>

----------------------------------------------------------------------------
(* C28 *)

\* No two tasks of ts have the same id
C28_Distinct(ts) ==
    \A i, j \in 1..Len(ts) : ts[i].id = ts[j].id => i = j

\* The ids of the in-memory snapshot are pairwise distinct, and so are
\* those of the durable snapshot
C28_UniqueIds ==
    /\ C28_Distinct(tasks)
    /\ C28_Distinct(Stored)

\* C28: task identifiers are unique within a snapshot, in memory and
\* durable, in every reachable state; stated here for the states the claim
\* singles out, those a reconcile (useTaskStore.syncTasks) leaves.
C28_UniqueAfterReconcile ==
    (last.op = "syncTasks") => C28_UniqueIds

----------------------------------------------------------------------------
(* C29 *)

\* The actions of the sequence l
ActionsOf(l) == {l[i] : i \in 1..Len(l)}

\* C29: no queued action is discarded unprocessed: every action that the
\* clear of a reconcile removed from the log was folded by that reconcile,
\* also when its saveOfflineAction ran while the reconcile did.
C29_NothingDiscardedUnprocessed ==
    \A r \in Reconcilers :
        reconciling[r].pc = "resolved"
            => ActionsOf(reconciling[r].removed) \subseteq
                   ActionsOf(reconciling[r].actions)

\* The same, counting an action as processed when any reconcile folded it
C29_FoldedBySome ==
    \A r \in Reconcilers :
        reconciling[r].pc = "resolved"
            => ActionsOf(reconciling[r].removed) \subseteq
                   UNION {ActionsOf(reconciling[q].actions) : q \in Reconcilers}

----------------------------------------------------------------------------
(* C30 *)

\* C30: each Offline Action is folded into the in-memory snapshot at most
\* once, whatever the interleaving of the reconciles and even when clearing
\* the log fails.  The queued CREATE of a task the store already holds
\* once adds one more occurrence of the task each time it is applied: the
\* store holds the task at most twice.
C30_FoldedAtMostOnce ==
    CountIn(tasks, RaceStored) <= 2

\* No action was folded by two reconciles
C30_NoSharedAction ==
    \A r, q \in Reconcilers :
        r # q => ActionsOf(reconciling[r].actions) \cap
                     ActionsOf(reconciling[q].actions) = {}

----------------------------------------------------------------------------
(* C31 *)

\* The taskService call p queued an action and resolved
C31_Appended(p) ==
    /\ inflight[p].pc = "resolved"
    /\ Len(inflight[p].actions) > 0

\* C31: appends to the Offline Action Log are atomic with respect to each
\* other: after two concurrent saveOfflineAction calls have resolved, the
\* log (empty before them) contains both actions.
C31_BothAppended ==
    (\A p \in Callers : C31_Appended(p))
        => /\ Len(Log) = Cardinality(Callers)
           /\ \A p \in Callers :
                  \E i \in 1..Len(Log) : Log[i] = inflight[p].action

----------------------------------------------------------------------------
(* C32 *)

\* useTaskStore.createTask ran last and resolved through taskService
C32_CreatedOffline ==
    /\ last.op = "createTask"
    /\ last.outcome = "resolved"
    /\ ~last.e.firestore

\* The next call is a reconcile or a fetch that resolved without an error,
\* and the task created before it is still among the tasks of the store
C32_Step ==
    (/\ C32_CreatedOffline
     /\ steps' = steps + 1
     /\ last'.op \in {"fetchTasks", "syncTasks"}
     /\ last'.outcome = "resolved"
     /\ error' = Null)
        => \E i \in 1..Len(tasks') : tasks'[i].id = tasks[Len(tasks)].id

\* C32: a task created while offline is not lost: once createTask has
\* resolved through the local fallback, the task is in the in-memory
\* snapshot after a later reconcile or successful fetchTasks (no delete of
\* it having been requested).
C32_CreatedOfflineKept == [][C32_Step]_vars

----------------------------------------------------------------------------
(* C33 *)

\* useTaskStore.deleteTask ran last and resolved through Firestore
C33_DeletedInFirestore ==
    /\ last.op = "deleteTask"
    /\ last.outcome = "resolved"
    /\ last.e.firestore

\* The next call is a fetchTasks that resolved without an error, and the
\* store holds no task with the deleted id
C33_Step ==
    (/\ C33_DeletedInFirestore
     /\ steps' = steps + 1
     /\ last'.op = "fetchTasks"
     /\ last'.outcome = "resolved"
     /\ error' = Null)
        => last.id \notin IdsOf(tasks')

\* C33: a deleted task stays deleted: after deleteTask(id) resolved through
\* the Firestore path, a subsequent successful fetchTasks yields a snapshot
\* with no task of that id.
C33_DeletedStaysDeleted == [][C33_Step]_vars

----------------------------------------------------------------------------
(* C34 *)

\* The fields of the tasks of a snapshot that the two snapshots share
C34_Fields(ts) ==
    [i \in 1..Len(ts) |->
        [id |-> ts[i].id, title |-> ts[i].title,
         description |-> ts[i].description, status |-> ts[i].status,
         completed |-> ts[i].completed]]

\* A mutating operation ran last from equal snapshots, took the local
\* fallback with every AsyncStorage call succeeding, and resolved
C34_FallbackResolved ==
    /\ last.op \in Mutations
    /\ last.outcome = "resolved"
    /\ ~last.e.firestore
    /\ \A c \in StorageCalls : last.e[c]
    /\ C34_Fields(last.tasks0) = C34_Fields(Stored0)

\* C34: the in-memory snapshot and the durable snapshot stay in step on
\* the fallback path: from equal snapshots, after a mutating operation of
\* useTaskStore that took the taskService fallback and resolved, the two
\* are equal on id, title, description, status and completed of every task.
C34_SnapshotsInStep ==
    C34_FallbackResolved => C34_Fields(tasks) = C34_Fields(Stored)

----------------------------------------------------------------------------
(* C35 *)

\* Nothing is in flight: the initial check has run, no event is waiting
\* for the listener and no reconcile that was started is still to run
C35_Quiescent ==
    /\ ~sync.check
    /\ sync.event = "none"
    /\ sync.reconciles = 0

\* C35: useSyncStore.pendingActions mirrors the durable Offline Action Log:
\* whenever no operation is in flight, pendingActions equals what
\* syncService.getOfflineActions() returns, also after taskService has
\* queued an action and after a reconcile has cleared the log.
C35_PendingMirrorsLog ==
    C35_Quiescent => sync.pendingActions = Log

----------------------------------------------------------------------------
(* C36 *)

\* Every callback has run: the initial check has set its result and the
\* listener has received the last event
C36_CallbacksRan ==
    /\ ~sync.check
    /\ sync.event = "none"

\* C36: useSyncStore.isOnline is never left stale: for every interleaving
\* of the initial checkConnectivity probe with the events delivered to the
\* listener, once all pending callbacks have run isOnline equals the most
\* recent connectivity state reported by NetInfo.
C36_IsOnlineCurrent ==
    C36_CallbacksRan => sync.isOnline = sync.net

----------------------------------------------------------------------------
(* C37 *)

C37_Kept(t) == t.completed = (t.status = "completed")

C37_AllKept(ts) == \A i \in 1..Len(ts) : C37_Kept(ts[i])

\* A status operation of taskService, or createTask, ran last and resolved
C37_StatusOperation ==
    /\ last.op \in {"createTask", "toggleTaskComplete", "updateTaskStatus"}
    /\ last.outcome = "resolved"

\* C37: taskService keeps completed == (status == 'completed'):
\* updateTaskStatus(id, s) returns and persists a task with status s and
\* completed == (s == 'completed'); createTask and toggleTaskComplete
\* likewise return and persist a task that satisfies the invariant, and a
\* durable snapshot that satisfied it before the call satisfies it after.
C37_StatusOpsKeepInvariant ==
    C37_StatusOperation
        => /\ C37_Kept(last.val)
           /\ \E i \in 1..Len(Stored) : Stored[i] = last.val
           /\ last.op = "updateTaskStatus" => last.val.status = last.arg
           /\ C37_AllKept(Stored0) => C37_AllKept(Stored)

\* updateTaskStatus(id, 'completed') resolved on a task that was not
\* completed
C37_Witness ==
    /\ last.op = "updateTaskStatus"
    /\ last.outcome = "resolved"
    /\ last.arg = "completed"
    /\ \E i \in 1..Len(Stored0) :
          Stored0[i].id = last.id /\ ~Stored0[i].completed

----------------------------------------------------------------------------
(* C38 *)

\* useTaskStore.createTask ran last and resolved through Firestore
C38_CreatedInFirestore ==
    /\ last.op = "createTask"
    /\ last.outcome = "resolved"
    /\ last.e.firestore

\* The task that createTask appended is initialised as asked
C38_Initialised(t) ==
    /\ t.status = "not_started"
    /\ t.completed = FALSE
    /\ t.title = last.arg.title
    /\ t.description = last.arg.description
    /\ t.userId = last.arg.userId
    /\ t.ownerId = last.arg.userId

\* Its assigned date is set, to the instant of the creation
C38_Assigned(t) ==
    /\ t.assignedDate # Undefined
    /\ t.assignedDate = toISOString(last.clock0)

\* C38: a task created through the preferred backend path is initialised
\* like a locally created one: the task that useTaskStore.createTask
\* appends after firestoreService.createTask succeeded has status
\* 'not_started', completed false, the given title, description and owner,
\* and an assigned date set at creation.
C38_InitialisedLikeLocal ==
    C38_CreatedInFirestore
        => /\ Len(tasks) = Len(last.tasks0) + 1
           /\ C38_Initialised(tasks[Len(tasks)])
           /\ C38_Assigned(tasks[Len(tasks)])

====
